---------------------------- MODULE Spec2Model ----------------------------
(***************************************************************************)
(* A model of the bug-localization pipelines of AI-agent-BugLocalization:  *)
(* the asyncio stage pipelines of src/src/main.py (the combined pipeline)  *)
(* and src/src/KEYBERT.py (the KeyBERT pipeline), and the hybrid ranker    *)
(* bug_localization_BM25_and_FAISS of src/src/tools.py.                    *)
(*                                                                         *)
(* asyncio runs one task at a time and switches tasks only where a task    *)
(* suspends.  In these scripts a worker suspends at queue.get() on an      *)
(* empty queue and at run_blocking (loop.run_in_executor); queue.put on a  *)
(* queue without maxsize, log_event (the lock is never contended) and      *)
(* task_done never suspend.  Each action below is one such atomic segment  *)
(* of a task; which ready task runs next is left open.                     *)
(***************************************************************************)
EXTENDS Integers, Sequences, FiniteSets, TLC

(***************************************************************************)
(* Bounds of the model.                                                    *)
(***************************************************************************)
MaxBugs == 2            \* bug-report directories under bug_path: 0..MaxBugs
MaxBatchBugs == 5       \* the same, for runs without a failing query: 0..MaxBatchBugs
MaxProjects == 2        \* projects process_all_projects goes through: 1..MaxProjects
MaxArgs == 8            \* positional arguments given to Agent.run: 0..MaxArgs
MaxDocs == 3            \* documents of the corpus: 1..MaxDocs
MaxScore == 1           \* BM25 scores and L2 distances are drawn from 0..MaxScore
MaxTopN == 4            \* top_n: 1..MaxTopN
MaxEvalBugs == 2        \* bugs of the ground truth: 1..MaxEvalBugs
MaxFileIds == 2         \* file ids in the ground truth and the rankings: 1..MaxFileIds
MaxResultLen == 2       \* lines of a ranked-result file: 0..MaxResultLen
MaxLines == 3           \* lines of a ground-truth file: 0..MaxLines
MaxCount == 2           \* the count of a header line: -MaxCount..MaxCount
MaxDirLen == 1          \* lines of a result file of the result directory: 0..MaxDirLen
MaxPathDepth == 2       \* directories between the corpus root and a file: 0..MaxPathDepth
MaxChunks == 4          \* pieces of a text given to preprocess_text: 0..MaxChunks
MaxDocWords == 1        \* words of a normalized document: 1..MaxDocWords
MaxLogEvents == 2       \* log_event calls of one task: 0..MaxLogEvents

(***************************************************************************)
(* Program constants.                                                      *)
(***************************************************************************)
NumLocalizeWorkers == 4 \* range(4) in main_async
QueueMaxsize == 0       \* asyncio.Queue(): maxsize defaults to 0, no limit
MinWordLen == 3         \* len(word) >= 3 in preprocess_text

VARIABLES
  pipeline,    \* the script whose main_async runs: "combined" | "keybert" | "reason" | "nlp" | "single" | "none"
  nbugs,       \* number of bug directories os.listdir(bug_path) yields: bugs 1..nbugs
  badQuery,    \* the bugs whose queries make bug_localization_BM25_and_FAISS raise
  mainPc,      \* position of main_async
  queue,       \* queue name -> sequence of items (asyncio.Queue._queue)
  unfinished,  \* queue name -> asyncio.Queue._unfinished_tasks
  wpc,         \* worker task -> position
  witem,       \* worker task -> the item it took and has not yet task_done'd
  raised,      \* worker task -> TRUE once an exception has ended the task
  files,       \* <<bug, kind, tag>> -> content of <bug>_<kind>_<tag>_query_result.txt
  log,         \* the lines appended to the pipeline log
  projectNo,   \* calls of main_async so far: the global queues are those of this call
  oldTasks,    \* earlier call -> worker task it created -> position
  \* one call of bug_localization_BM25_and_FAISS
  rankPc,      \* "idle" | "call" (arguments bound) | "returned"
  corpusSize,  \* len(processed_documents); the documents are 1..corpusSize
  queryEmpty,  \* bug_report_query = ""
  bm25Scores,  \* bm25_index.get_scores(bug_report_query), by corpus position
  faissDist,   \* the L2 distance FAISS gives each document, by corpus position
  weights,     \* <<bm25_weight, faiss_weight>>, in tenths
  topN,        \* top_n
  result,      \* the lines of the returned string: [rank, doc, score]
  \* index_source_code and the artifacts it keeps in the working directory
  docCount,      \* source_code_dir -> number of source files loaded from it
  bm25Pkl,       \* the corpus bm25_index.pkl was built from, or NoArtifact
  faissIndexDir, \* the corpus faiss_index_dir was built from, or NoArtifact
  indexArg,      \* source_code_dir of the latest call, or "none"
  indexRet,      \* outcome of the latest call
  \* one evaluation run of evaluate2.py for one query type
  evalPc,          \* "idle" | "start" | "checked" | "done"
  groundTruth,     \* ground_truth: bug -> set of ground-truth file ids
  existsOnDisk,    \* the file ids whose path exists under the source code dir
  existingFiles,   \* existing_files: bug -> set of file ids
  missingFiles,    \* missing_files: bug -> set of file ids
  bugsAllMissing,  \* bugs_all_missing
  bugsSomeMissing, \* bugs_some_missing
  loadedBugs,      \* the considered bugs whose result files have been loaded
  resultFiles,     \* bug -> what load_search_results gives for its two files
  searchData,      \* the bugs with a (bug, 'baseline') key in search_data
  evalResults,     \* what evaluate_query_type returns
  \* one source document on its way from the ranker's result line to the
  \* evaluator, and one line of the ground-truth file
  pathPc,      \* "idle" | "doc" | "ranked" | "raised" | "loaded"
  srcPath,     \* doc.metadata['filename'] of the document
  resultLine,  \* the line bug_localization_BM25_and_FAISS writes for it
  rankedId,    \* what load_search_results makes of that line
  gtLine,      \* a file line of the ground-truth file
  gtId,        \* normalize_file_path(gtLine), or NoString before the call
  \* calls of preprocess_text
  stopwords,   \* the words of stop_words_english.txt
  ppCalls,     \* calls made so far
  ppIn,        \* bug_report_content of the latest call
  ppOut,       \* what the latest call returned
  \* the BM25 index of a corpus and one query against it
  bmPc,            \* "idle" | "corpus" | "built" | "scored"
  tokenizedCorpus, \* tokenized_corpus
  bugReportQuery,  \* bug_report_query
  bm25Index,       \* BM25Okapi(tokenized_corpus)
  scoreSigns,      \* get_scores(bug_report_query), by sign
  \* log_event and the event loop
  running,     \* the task the event loop is running, or NoTask
  lockHolder,  \* the task that holds log_lock, or NoTask
  lpc,         \* task -> its position in or around log_event
  logCalls,    \* task -> log_event calls it has completed
  logFile,     \* the lines appended to the log file, in order
  sharedIndex, \* bm25_index, faiss_index: the globals main_async assigns
  \* one call of Agent.run
  agentPc,     \* "idle" | "call" | "returned"
  agent,       \* the Agent instance: its name, tools and output_key
  agentArgs,   \* len(args)
  toolOutcome, \* what the tool does when it is called with arguments it accepts
  agentRet,    \* what run does: whether it raised, and the mapping it returned
  \* one call of load_ground_truth
  loadPc,      \* "idle" | "call" | "loop" | "returned" | "raised"
  fileLines,   \* lines: what f.readlines() gives, or NoLines when the file is missing
  cursor,      \* i
  loadedTruth, \* ground_truth: the set of <<bug_id, relevant_files>> entries
  \* the second script of evaluate2.py, on the inputs of the first
  refPc,       \* position of its main: "idle" | "start" | "done" | "raised"
  resultDir,   \* search_results_dir: bug -> its two result files, each a list of
               \* file names or MissingFile
  refResults   \* data: what the second compute_evaluation returns

projVars == <<projectNo, oldTasks>>

pipeVars == <<pipeline, nbugs, badQuery, mainPc, queue, unfinished, wpc, witem,
              raised, files, log, projVars>>

rankVars == <<rankPc, corpusSize, queryEmpty, bm25Scores, faissDist, weights, topN, result>>

indexVars == <<docCount, bm25Pkl, faissIndexDir, indexArg, indexRet>>

evalVars == <<evalPc, groundTruth, existsOnDisk, existingFiles, missingFiles,
              bugsAllMissing, bugsSomeMissing, loadedBugs, resultFiles, searchData,
              evalResults>>

pathVars == <<pathPc, srcPath, resultLine, rankedId, gtLine, gtId>>

ppVars == <<stopwords, ppCalls, ppIn, ppOut>>

bmVars == <<bmPc, tokenizedCorpus, bugReportQuery, bm25Index, scoreSigns>>

textVars == <<pathVars, ppVars, bmVars>>

logVars == <<running, lockHolder, lpc, logCalls, logFile, sharedIndex>>

agentVars == <<agentPc, agent, agentArgs, toolOutcome, agentRet>>

loadVars == <<loadPc, fileLines, cursor, loadedTruth>>

refVars == <<refPc, resultDir, refResults>>

callVars == <<agentVars, loadVars, refVars>>

toolVars == <<rankVars, indexVars, evalVars, textVars, logVars, callVars>>

vars == <<pipeVars, toolVars>>

(***************************************************************************)
(* Names.                                                                  *)
(***************************************************************************)
Bugs == 1..(IF MaxBugs > MaxBatchBugs THEN MaxBugs ELSE MaxBatchBugs)
Projects == 1..MaxProjects
QueueNames == {"read", "process", "keybert", "reason", "localization"}
Kinds == {"baseline", "extended"}
Tags == {"basic", "keyBERT", "reasoning"}

ReadW == <<"read", 0>>
ProcessW == <<"process", 0>>
KeybertW == <<"keybert", 0>>
ReasonW == <<"reason", 0>>
\* a main_async that creates five localize workers
LocalizeWsOneMore == {<<"localize", i>> : i \in 1..5}

LocalizeWs == {<<"localize", i>> : i \in 1..NumLocalizeWorkers}
AllWorkers == {ReadW, ProcessW, KeybertW, ReasonW} \cup LocalizeWs

\* a src/main.py whose main_async creates two localize workers
SingleLocalizeWsTwo == {<<"localize", 1>>, <<"localize", 2>>}

\* the localize worker of src/main.py
SingleLocalizeWs == {<<"localize", 1>>}

\* the worker tasks main_async creates
Workers(p) ==
  IF p = "combined" THEN AllWorkers
  ELSE IF p = "keybert" THEN AllWorkers \ {ReasonW}
  ELSE IF p = "reason" THEN AllWorkers \ {KeybertW}
  ELSE IF p = "nlp" THEN {ReadW, ProcessW}
  ELSE IF p = "single" THEN {ReadW, ProcessW, KeybertW} \cup SingleLocalizeWs
  ELSE {}

\* the queues main_async constructs
PipelineQueues(p) ==
  IF p = "combined" THEN QueueNames
  ELSE IF p \in {"keybert", "single"} THEN QueueNames \ {"reason"}
  ELSE IF p = "reason" THEN QueueNames \ {"keybert"}
  ELSE IF p = "nlp" THEN {"read", "process", "localization"}
  ELSE {}

\* the queue a worker consumes
WorkerQueue(w) ==
  CASE w[1] = "read" -> "read"
    [] w[1] = "process" -> "process"
    [] w[1] = "keybert" -> "keybert"
    [] w[1] = "reason" -> "reason"
    [] w[1] = "localize" -> "localization"

\* a main_async that does not join localization_queue before it cancels
JoinOrderWithoutLocalization(p) ==
  IF p = "combined"
    THEN <<"read", "process", "keybert", "reason">>
    ELSE <<"read", "process", "keybert">>

\* the order of the `await <queue>.join()` lines
JoinOrder(p) ==
  IF p = "combined"
    THEN <<"read", "process", "keybert", "reason", "localization">>
  ELSE IF p = "reason"
    THEN <<"read", "reason", "process", "localization">>
  ELSE IF p = "nlp"
    THEN <<"read", "process", "localization">>
    ELSE <<"read", "process", "keybert", "localization">>

Item(b, tag, from) == [bug |-> b, tag |-> tag, from |-> from]
NoItem == Item(0, "none", "none")

NoFile == [kind |-> "none", from |-> "none"]
Ranking(from) == [kind |-> "ranking", from |-> from]
ErrorText(from) == [kind |-> "error", from |-> from]

LogLine(tag, b, stage, variant) ==
  [tag |-> tag, bug |-> b, stage |-> stage, variant |-> variant]

(***************************************************************************)
(* asyncio.Queue.                                                          *)
(***************************************************************************)
\* Queue.full()
Full(q) == QueueMaxsize > 0 /\ Len(queue[q]) >= QueueMaxsize

\* Queue.put_nowait on a sequence of (queue, item) pairs, applied in order
RECURSIVE PutAll(_, _)
PutAll(qs, puts) ==
  IF puts = <<>> THEN qs
  ELSE LET q == puts[1][1]
           it == puts[1][2]
       IN PutAll([qs EXCEPT ![q] = Append(@, it)], Tail(puts))

RECURSIVE CountAll(_, _)
CountAll(un, puts) ==
  IF puts = <<>> THEN un
  ELSE CountAll([un EXCEPT ![puts[1][1]] = @ + 1], Tail(puts))

\* a worker at `await <queue>.get()` whose queue holds an item: get returns
\* without suspending
CanGet(w) ==
  /\ wpc[w] \in {"new", "get"}
  /\ queue[WorkerQueue(w)] # <<>>

\* the segment that takes the head item, puts `puts` downstream, calls
\* task_done and loops back to get
TakePutDone(w, puts, lines) ==
  LET q == WorkerQueue(w) IN
  /\ \A i \in 1..Len(puts) : ~Full(puts[i][1])
  /\ queue' = PutAll([queue EXCEPT ![q] = Tail(@)], puts)
  /\ unfinished' = [CountAll(unfinished, puts) EXCEPT ![q] = @ - 1]
  /\ wpc' = [wpc EXCEPT ![w] = "get"]
  /\ witem' = [witem EXCEPT ![w] = NoItem]
  /\ log' = log \cup lines
  /\ UNCHANGED raised

\* the segment that takes the head item and ends the task with an exception:
\* nothing is put, task_done is not reached
TakeRaise(w, lines) ==
  LET q == WorkerQueue(w) IN
  /\ queue' = [queue EXCEPT ![q] = Tail(@)]
  /\ wpc' = [wpc EXCEPT ![w] = "dead"]
  /\ witem' = [witem EXCEPT ![w] = Head(queue[q])]
  /\ raised' = [raised EXCEPT ![w] = TRUE]
  /\ log' = log \cup lines
  /\ UNCHANGED unfinished

(***************************************************************************)
(* main_async.                                                             *)
(***************************************************************************)
\* a main_async that fills read_queue and creates the worker tasks before it
\* builds the index
MainStartIndexAfterWorkers ==
  /\ mainPc = "start"
  /\ \E indexOk \in BOOLEAN : mainPc' = IF indexOk THEN "join1" ELSE "aborted"
  /\ queue' = [queue EXCEPT !["read"] =
                 [i \in 1..nbugs |-> Item(i, "none", "dir")]]
  /\ unfinished' = [unfinished EXCEPT !["read"] = nbugs]
  /\ wpc' = [w \in AllWorkers |->
               IF w \in Workers(pipeline) THEN "new" ELSE "none"]
  /\ log' = {}
  /\ UNCHANGED <<toolVars, projVars, pipeline, nbugs, badQuery, witem, raised, files>>

\* up to the first join: the queues are constructed, the index is built and
\* unpacked, the log is truncated (combined pipeline), every bug directory is
\* put on read_queue and the worker tasks are created.  Agent.run gives the
\* triple of index_source_code or, when the tool raised (a missing source
\* directory, or an argument list the tool does not accept), an error string,
\* and unpacking that string raises out of main_async.
MainStart ==
  /\ mainPc = "start"
  /\ \E indexOk \in (IF pipeline = "nlp" THEN {TRUE} ELSE BOOLEAN) :
       IF indexOk
         THEN /\ mainPc' = "join1"
              /\ queue' = [queue EXCEPT !["read"] =
                             [i \in 1..nbugs |-> Item(i, "none", "dir")]]
              /\ unfinished' = [unfinished EXCEPT !["read"] = nbugs]
              /\ wpc' = [w \in AllWorkers |->
                           IF w \in Workers(pipeline) THEN "new" ELSE "none"]
         ELSE /\ mainPc' = "aborted"
              /\ UNCHANGED <<queue, unfinished, wpc>>
  /\ log' = {}
  /\ UNCHANGED <<toolVars, projVars, pipeline, nbugs, badQuery, witem, raised, files>>

JoinIndex == IF mainPc = "join1" THEN 1
             ELSE IF mainPc = "join2" THEN 2
             ELSE IF mainPc = "join3" THEN 3
             ELSE IF mainPc = "join4" THEN 4
             ELSE IF mainPc = "join5" THEN 5
             ELSE 0

JoinPc(i) == CASE i = 1 -> "join1" [] i = 2 -> "join2" [] i = 3 -> "join3"
               [] i = 4 -> "join4" [] i = 5 -> "join5"

JoinPcs == {"join1", "join2", "join3", "join4", "join5"}

\* `await q.join()` returns once q has no unfinished task.  With a bug on
\* read_queue main_async suspends at the first join, and the loop runs the
\* first step of every task created before it resumes main_async.
MainJoin ==
  /\ JoinIndex > 0
  /\ unfinished[JoinOrder(pipeline)[JoinIndex]] = 0
  /\ nbugs > 0 => \A w \in Workers(pipeline) : wpc[w] # "new"
  /\ mainPc' = IF JoinIndex = Len(JoinOrder(pipeline))
                 THEN "cancel" ELSE JoinPc(JoinIndex + 1)
  /\ UNCHANGED <<toolVars, projVars, pipeline, nbugs, badQuery, queue, unfinished, wpc, witem, raised, files, log>>

\* a main_async that returns after the joins without cancelling its workers
MainReturnWithoutCancel ==
  /\ mainPc = "cancel"
  /\ mainPc' = "done"
  /\ UNCHANGED <<toolVars, projVars, pipeline, nbugs, badQuery, queue, unfinished, wpc, witem, raised, files, log>>

\* for w in workers: w.cancel().  A task that has ended is left as it is.
MainCancel ==
  /\ mainPc = "cancel"
  /\ mainPc' = "done"
  /\ wpc' = [w \in AllWorkers |->
               IF wpc[w] \in {"none", "dead"} THEN wpc[w] ELSE "cancelled"]
  /\ UNCHANGED <<toolVars, projVars, pipeline, nbugs, badQuery, queue, unfinished, witem, raised, files, log>>

\* process_all_projects: main_async has returned and is called for the next
\* project; it binds the global queue names to four new queues.  Nothing has
\* suspended since the cancel, so the tasks of the call that returned have
\* their cancel requested and CancelledError not yet thrown into them.  The
\* new project has its own bug directories and result directories.
NextProject ==
  /\ mainPc = "done"
  /\ projectNo < MaxProjects
  /\ projectNo' = projectNo + 1
  /\ oldTasks' = [oldTasks EXCEPT ![projectNo] =
                    [w \in AllWorkers |->
                       IF wpc[w] = "cancelled" THEN "cancelling" ELSE wpc[w]]]
  /\ mainPc' = "start"
  /\ \E n \in 0..MaxBugs :
       /\ nbugs' = n
       /\ badQuery' \in SUBSET (1..n)
  /\ queue' = [q \in QueueNames |-> <<>>]
  /\ unfinished' = [q \in QueueNames |-> 0]
  /\ wpc' = [w \in AllWorkers |-> "none"]
  /\ witem' = [w \in AllWorkers |-> NoItem]
  /\ raised' = [w \in AllWorkers |-> FALSE]
  /\ files' = [f \in Bugs \X Kinds \X Tags |-> NoFile]
  /\ UNCHANGED <<toolVars, pipeline, log>>

\* the old tasks that have a step to run
Runnable(g, w) == oldTasks[g][w] \in {"cancelling", "new"}

\* an old task that was not cancelled and has not run yet evaluates
\* `await <queue>.get()` with the global name, which is the current queue
TakesFrom(q) ==
  \E g \in Projects, w \in AllWorkers :
    oldTasks[g][w] = "new" /\ WorkerQueue(w) = q /\ queue[q] # <<>>

\* main_async is suspended at a join and the event loop runs the tasks of the
\* earlier calls: a task whose cancel was requested ends with CancelledError,
\* at its pending get or before its first statement; a task that was not
\* cancelled and has not run yet takes the head of the current queue, or
\* parks on it
OldTasksResume ==
  /\ mainPc \in JoinPcs
  /\ nbugs > 0
  /\ \E g \in Projects, w \in AllWorkers : Runnable(g, w)
  /\ oldTasks' = [g \in Projects |-> [w \in AllWorkers |->
                    CASE oldTasks[g][w] = "cancelling" -> "cancelled"
                      [] oldTasks[g][w] = "new" ->
                           IF queue[WorkerQueue(w)] # <<>> THEN "took" ELSE "parked"
                      [] OTHER -> oldTasks[g][w]]]
  /\ queue' = [q \in QueueNames |->
                 IF TakesFrom(q) THEN Tail(queue[q]) ELSE queue[q]]
  /\ UNCHANGED <<toolVars, projectNo, pipeline, nbugs, badQuery, mainPc, unfinished, wpc, witem, raised, files, log>>

(***************************************************************************)
(* The stage workers.                                                      *)
(***************************************************************************)
\* a task whose first step finds its queue empty parks at get.  The tasks
\* run only once main_async has suspended, which it does at the first join
\* exactly when a bug report is on read_queue.
WorkerPark(w) ==
  /\ nbugs > 0
  /\ wpc[w] = "new"
  /\ queue[WorkerQueue(w)] = <<>>
  /\ wpc' = [wpc EXCEPT ![w] = "get"]
  /\ UNCHANGED <<toolVars, projVars, pipeline, nbugs, badQuery, mainPc, queue, unfinished, witem, raised, files, log>>

\* read_worker: one loop iteration.  load_image_content lists the bug directory
\* and reads the image-content files; an OSError there ends the task.
ReadWorker ==
  LET b == Head(queue["read"]).bug IN
  /\ CanGet(ReadW)
  /\ \E imageOk \in BOOLEAN :
       IF imageOk
         THEN TakePutDone(ReadW,
                (IF pipeline = "reason"
                   THEN <<>> ELSE <<<<"process", Item(b, "none", "READ")>>>>) \o
                (IF pipeline \in {"combined", "reason"}
                   THEN <<<<"reason", Item(b, "none", "READ")>>>> ELSE <<>>),
                {LogLine("READ", b, "start", "-"), LogLine("READ", b, "done", "-")})
         ELSE TakeRaise(ReadW, {LogLine("READ", b, "start", "-")})
  /\ UNCHANGED <<toolVars, projVars, pipeline, nbugs, badQuery, mainPc, files>>

\* a process_worker that, in NLP.py, still puts its queries on
\* localization_queue
ProcessWorkerNlpForwards ==
  LET b == Head(queue["process"]).bug IN
  /\ CanGet(ProcessW)
  /\ \E writeOk \in (IF pipeline = "keybert" THEN {TRUE} ELSE BOOLEAN) :
       IF writeOk
         THEN TakePutDone(ProcessW,
                CASE pipeline = "combined" ->
                       <<<<"localization", Item(b, "keyBERT", "PROCESS")>>,
                         <<"keybert", Item(b, "none", "PROCESS")>>>>
                  [] pipeline = "reason" ->
                       <<<<"localization", Item(b, "reasoning", "PROCESS")>>>>
                  [] pipeline = "nlp" -> <<<<"localization", Item(b, "basic", "PROCESS")>>>>
                  [] OTHER -> <<<<"keybert", Item(b, "none", "PROCESS")>>>>,
                {LogLine("PROCESS", b, "start", "-"), LogLine("PROCESS", b, "done", "-")})
         ELSE TakeRaise(ProcessW, {LogLine("PROCESS", b, "start", "-")})
  /\ UNCHANGED <<toolVars, projVars, pipeline, nbugs, badQuery, mainPc, files>>

\* process_worker: one loop iteration.  The combined pipeline, reason.py and
\* NLP.py write query files here (an OSError ends the task), KEYBERT.py
\* writes nothing.  The combined pipeline feeds localization_queue, with the
\* tag "keyBERT", and keybert_queue; KEYBERT.py feeds keybert_queue, reason.py
\* localization_queue, and NLP.py forwards nothing.
ProcessWorker ==
  LET b == Head(queue["process"]).bug IN
  /\ CanGet(ProcessW)
  /\ \E writeOk \in (IF pipeline = "keybert" THEN {TRUE} ELSE BOOLEAN) :
       IF writeOk
         THEN TakePutDone(ProcessW,
                CASE pipeline = "combined" ->
                       <<<<"localization", Item(b, "keyBERT", "PROCESS")>>,
                         <<"keybert", Item(b, "none", "PROCESS")>>>>
                  [] pipeline = "reason" ->
                       <<<<"localization", Item(b, "reasoning", "PROCESS")>>>>
                  [] pipeline = "nlp" -> <<>>
                  [] OTHER -> <<<<"keybert", Item(b, "none", "PROCESS")>>>>,
                {LogLine("PROCESS", b, "start", "-"), LogLine("PROCESS", b, "done", "-")})
         ELSE TakeRaise(ProcessW, {LogLine("PROCESS", b, "start", "-")})
  /\ UNCHANGED <<toolVars, projVars, pipeline, nbugs, badQuery, mainPc, files>>

\* keybert_worker, from get to the first run_blocking
KeybertGet ==
  LET b == Head(queue["keybert"]).bug IN
  /\ CanGet(KeybertW)
  /\ queue' = [queue EXCEPT !["keybert"] = Tail(@)]
  /\ witem' = [witem EXCEPT ![KeybertW] = Head(queue["keybert"])]
  /\ wpc' = [wpc EXCEPT ![KeybertW] = "baseline_call"]
  /\ log' = log \cup {LogLine("KEYBERT", b, "start", "-")}
  /\ UNCHANGED <<toolVars, projVars, pipeline, nbugs, badQuery, mainPc, unfinished, raised, files>>

\* the baseline call returns (Agent.run never raises); the extended call is
\* handed to the pool
KeybertBaselineReturn ==
  /\ wpc[KeybertW] = "baseline_call"
  /\ wpc' = [wpc EXCEPT ![KeybertW] = "extended_call"]
  /\ UNCHANGED <<toolVars, projVars, pipeline, nbugs, badQuery, mainPc, queue, unfinished, witem, raised, files, log>>

\* the extended call returns: the two query files are written (an OSError
\* ends the task), the item is forwarded and acknowledged.  The combined
\* pipeline tags the keyword queries "basic".
KeybertExtendedReturn ==
  LET b == witem[KeybertW].bug IN
  /\ wpc[KeybertW] = "extended_call"
  /\ \E writeOk \in BOOLEAN :
       IF writeOk
         THEN /\ ~Full("localization")
              /\ queue' = [queue EXCEPT !["localization"] =
                             Append(@, Item(b, IF pipeline = "combined"
                                                 THEN "basic" ELSE "keyBERT",
                                            "KEYBERT"))]
              /\ unfinished' = [unfinished EXCEPT !["localization"] = @ + 1,
                                                  !["keybert"] = @ - 1]
              /\ wpc' = [wpc EXCEPT ![KeybertW] = "get"]
              /\ witem' = [witem EXCEPT ![KeybertW] = NoItem]
              /\ log' = log \cup {LogLine("KEYBERT", b, "done", "-")}
              /\ UNCHANGED raised
         ELSE /\ wpc' = [wpc EXCEPT ![KeybertW] = "dead"]
              /\ raised' = [raised EXCEPT ![KeybertW] = TRUE]
              /\ UNCHANGED <<queue, unfinished, witem, log>>
  /\ UNCHANGED <<toolVars, projVars, pipeline, nbugs, badQuery, mainPc, files>>

\* reason_worker.  In the combined pipeline the body that computes
\* baseline_query and extended_query is commented out, so building the
\* forwarded item raises NameError after the two log lines.  In reason.py it
\* calls its agent inline and forwards the item to process_queue.
ReasonWorker ==
  LET b == Head(queue["reason"]).bug
      lines == {LogLine("REASON", b, "start", "-"), LogLine("REASON", b, "done", "-")}
  IN
  /\ CanGet(ReasonW)
  /\ IF pipeline = "combined"
       THEN TakeRaise(ReasonW, lines)
       ELSE TakePutDone(ReasonW, <<<<"process", Item(b, "none", "REASON")>>>>, lines)
  /\ UNCHANGED <<toolVars, projVars, pipeline, nbugs, badQuery, mainPc, files>>

\* what bug_localization_BM25_and_FAISS_agent.run(...).get("file_content", "")
\* gives: the ranking, or "Error: ..." when the tool raised inside Agent.run
AgentOutput(b, from) == IF b \in badQuery THEN ErrorText(from) ELSE Ranking(from)

\* the variant in a localize log line: the combined pipeline logs query_type
LogVariant(it) == IF pipeline = "combined" THEN it.tag ELSE "-"

\* a localize_worker whose get leaves the item on localization_queue
LocalizeGetLeavesItem(w) ==
  LET it == Head(queue["localization"]) IN
  /\ CanGet(w)
  /\ witem' = [witem EXCEPT ![w] = it]
  /\ wpc' = [wpc EXCEPT ![w] = "baseline_call"]
  /\ log' = log \cup {LogLine("LOCALIZE", it.bug, "baseline start", LogVariant(it))}
  /\ UNCHANGED <<toolVars, projVars, pipeline, nbugs, badQuery, mainPc, queue, unfinished, raised, files>>

\* localize_worker, from get to the first run_blocking
LocalizeGet(w) ==
  LET it == Head(queue["localization"]) IN
  /\ CanGet(w)
  /\ queue' = [queue EXCEPT !["localization"] = Tail(@)]
  /\ witem' = [witem EXCEPT ![w] = it]
  /\ wpc' = [wpc EXCEPT ![w] = "baseline_call"]
  /\ log' = log \cup {LogLine("LOCALIZE", it.bug, "baseline start", LogVariant(it))}
  /\ UNCHANGED <<toolVars, projVars, pipeline, nbugs, badQuery, mainPc, unfinished, raised, files>>

\* the baseline call returns: its output is written to the baseline result
\* file and the extended call is handed to the pool
LocalizeBaselineReturn(w) ==
  LET it == witem[w] IN
  /\ wpc[w] = "baseline_call"
  /\ files' = [files EXCEPT ![<<it.bug, "baseline", it.tag>>] =
                AgentOutput(it.bug, it.from)]
  /\ wpc' = [wpc EXCEPT ![w] = "extended_call"]
  /\ log' = log \cup
       (IF pipeline = "reason" THEN {}
          ELSE {LogLine("LOCALIZE", it.bug, "baseline done", LogVariant(it))}) \cup
       {LogLine("LOCALIZE", it.bug, "extended start", LogVariant(it))}
  /\ UNCHANGED <<toolVars, projVars, pipeline, nbugs, badQuery, mainPc, queue, unfinished, witem, raised>>

\* the extended call returns: its output is written to the extended result
\* file, the item is acknowledged and the worker loops back to get
LocalizeExtendedReturn(w) ==
  LET it == witem[w] IN
  /\ wpc[w] = "extended_call"
  /\ files' = [files EXCEPT ![<<it.bug, "extended", it.tag>>] =
                AgentOutput(it.bug, it.from)]
  /\ unfinished' = [unfinished EXCEPT !["localization"] = @ - 1]
  /\ wpc' = [wpc EXCEPT ![w] = "get"]
  /\ witem' = [witem EXCEPT ![w] = NoItem]
  /\ log' = log \cup
       {LogLine("LOCALIZE", it.bug,
                IF pipeline = "reason" THEN "done" ELSE "extended done",
                LogVariant(it))}
  /\ UNCHANGED <<toolVars, projVars, pipeline, nbugs, badQuery, mainPc, queue, raised>>

(***************************************************************************)
(* src/main.py, the pipeline with one localize worker.  Every worker calls *)
(* its agent inline, so a loop iteration runs without suspension from one  *)
(* get to the next.  A localization item carries one query; its `from`     *)
(* field says which query of the bug it is.                                *)
(***************************************************************************)
\* read_worker: one loop iteration
SingleReadWorker ==
  LET b == Head(queue["read"]).bug IN
  /\ pipeline = "single"
  /\ CanGet(ReadW)
  /\ TakePutDone(ReadW, <<<<"process", Item(b, "none", "READ")>>>>, {})
  /\ UNCHANGED <<toolVars, projVars, pipeline, nbugs, badQuery, mainPc, files>>

\* process_worker: one loop iteration; an OSError of load_image_content ends
\* the task
SingleProcessWorker ==
  LET b == Head(queue["process"]).bug IN
  /\ pipeline = "single"
  /\ CanGet(ProcessW)
  /\ \E imageOk \in BOOLEAN :
       IF imageOk
         THEN TakePutDone(ProcessW, <<<<"keybert", Item(b, "none", "PROCESS")>>>>, {})
         ELSE TakeRaise(ProcessW, {})
  /\ UNCHANGED <<toolVars, projVars, pipeline, nbugs, badQuery, mainPc, files>>

\* keybert_worker: one loop iteration.  The two query files are written (an
\* OSError ends the task), then the baseline query and the extended query
\* are put on localization_queue as two items.
SingleKeybertWorker ==
  LET b == Head(queue["keybert"]).bug IN
  /\ pipeline = "single"
  /\ CanGet(KeybertW)
  /\ \E writeOk \in BOOLEAN :
       IF writeOk
         THEN TakePutDone(KeybertW,
                <<<<"localization", Item(b, "keyBERT", "baseline")>>,
                  <<"localization", Item(b, "keyBERT", "extended")>>>>, {})
         ELSE TakeRaise(KeybertW, {})
  /\ UNCHANGED <<toolVars, projVars, pipeline, nbugs, badQuery, mainPc, files>>

\* localize_worker, from the first get to the second: the item is ranked and
\* written as the baseline result of its bug (an OSError ends the task before
\* task_done).  witem keeps the item, whose bug names output_dir.
SingleLocalizeFirst(w) ==
  LET it == Head(queue["localization"]) IN
  /\ pipeline = "single"
  /\ CanGet(w)
  /\ queue' = [queue EXCEPT !["localization"] = Tail(@)]
  /\ witem' = [witem EXCEPT ![w] = it]
  /\ \E writeOk \in BOOLEAN :
       IF writeOk
         THEN /\ files' = [files EXCEPT ![<<it.bug, "baseline", "keyBERT">>] =
                             AgentOutput(it.bug, it.from)]
              /\ unfinished' = [unfinished EXCEPT !["localization"] = @ - 1]
              /\ wpc' = [wpc EXCEPT ![w] = "second_get"]
              /\ UNCHANGED raised
         ELSE /\ wpc' = [wpc EXCEPT ![w] = "dead"]
              /\ raised' = [raised EXCEPT ![w] = TRUE]
              /\ UNCHANGED <<files, unfinished>>
  /\ UNCHANGED <<toolVars, projVars, pipeline, nbugs, badQuery, mainPc, log>>

\* localize_worker, from the second get back to the first: the item is
\* ranked and written as the extended result of its bug
SingleLocalizeSecond(w) ==
  LET it == Head(queue["localization"]) IN
  /\ pipeline = "single"
  /\ wpc[w] = "second_get"
  /\ queue["localization"] # <<>>
  /\ queue' = [queue EXCEPT !["localization"] = Tail(@)]
  /\ \E writeOk \in BOOLEAN :
       IF writeOk
         THEN /\ files' = [files EXCEPT ![<<it.bug, "extended", "keyBERT">>] =
                             AgentOutput(it.bug, it.from)]
              /\ unfinished' = [unfinished EXCEPT !["localization"] = @ - 1]
              /\ wpc' = [wpc EXCEPT ![w] = "get"]
              /\ witem' = [witem EXCEPT ![w] = NoItem]
              /\ UNCHANGED raised
         ELSE /\ wpc' = [wpc EXCEPT ![w] = "dead"]
              /\ raised' = [raised EXCEPT ![w] = TRUE]
              /\ witem' = [witem EXCEPT ![w] = it]
              /\ UNCHANGED <<files, unfinished>>
  /\ UNCHANGED <<toolVars, projVars, pipeline, nbugs, badQuery, mainPc, log>>

(***************************************************************************)
(* The hybrid ranker, bug_localization_BM25_and_FAISS.                     *)
(*                                                                         *)
(* Scores and distances are integers, the weights integer tenths.  With    *)
(* ptp = max - min of a vector and E = 10^8 = 1/epsilon, the fused score   *)
(*   w_b*(b-min b)/(ptp b + 1/E) + w_f*(1 - (f-min f)/(ptp f + 1/E))       *)
(* of document i is (E^2*c2 + E*c1 + w_f) / ((E*ptp b + 1)*(E*ptp f + 1))  *)
(* with the small integers c2, c1 of ScoreKey.  The denominator is the     *)
(* same for every document and |c1| < E, so two fused scores compare as    *)
(* their pairs <<c2, c1>> compare lexicographically.                       *)
(***************************************************************************)
Min(a, b) == IF a <= b THEN a ELSE b

\* numpy min and ptp of a vector over 1..n
VecMin(v, n) == CHOOSE m \in {v[i] : i \in 1..n} : \A i \in 1..n : m <= v[i]
VecMax(v, n) == CHOOSE m \in {v[i] : i \in 1..n} : \A i \in 1..n : m >= v[i]
Ptp(v, n) == VecMax(v, n) - VecMin(v, n)

\* a fusion that ignores the weights passed in and always mixes 0.3 / 0.7
ScoreKeyFixedWeights(i) ==
  LET n == corpusSize
      xb == bm25Scores[i] - VecMin(bm25Scores, n)
      pb == Ptp(bm25Scores, n)
      xf == faissDist[i] - VecMin(faissDist, n)
      pf == Ptp(faissDist, n)
  IN <<3 * xb * pf + 7 * (pf - xf) * pb,
       3 * xb + 7 * (pf - xf) + 7 * pb>>

\* combined_score[i] = bm25_weight * bm25_norm[i] + faiss_weight * faiss_norm[i],
\* with faiss_norm = 1 - (normalized distance)
ScoreKey(i) ==
  LET n == corpusSize
      xb == bm25Scores[i] - VecMin(bm25Scores, n)
      pb == Ptp(bm25Scores, n)
      xf == faissDist[i] - VecMin(faissDist, n)
      pf == Ptp(faissDist, n)
      wb == weights[1]
      wf == weights[2]
  IN <<wb * xb * pf + wf * (pf - xf) * pb,
       wb * xb + wf * (pf - xf) + wf * pb>>

\* The normalized vectors and the fused score as exact values.  With
\* e = 1e-8, a normalized value is (n + k*e) / (p + e), kept as [n, k, p]; a
\* weighted or fused value is (c[1] + c[2]*e + c[3]*e^2) / ((ptp b + e)*(ptp f + e)),
\* kept as the triple c, in tenths.
\* bm25_norm[i]
Bm25Norm(i) ==
  [n |-> bm25Scores[i] - VecMin(bm25Scores, corpusSize), k |-> 0,
   p |-> Ptp(bm25Scores, corpusSize)]

\* faiss_norm[i]
FaissNorm(i) ==
  [n |-> Ptp(faissDist, corpusSize) - (faissDist[i] - VecMin(faissDist, corpusSize)),
   k |-> 1,
   p |-> Ptp(faissDist, corpusSize)]

\* bm25_weight * bm25_norm[i]
WeightedBm25(i) ==
  LET b == Bm25Norm(i)
      f == FaissNorm(i)
  IN <<weights[1] * b.n * f.p, weights[1] * (b.n + b.k * f.p), weights[1] * b.k>>

\* faiss_weight * faiss_norm[i]
WeightedFaiss(i) ==
  LET b == Bm25Norm(i)
      f == FaissNorm(i)
  IN <<weights[2] * f.n * b.p, weights[2] * (f.n + f.k * b.p), weights[2] * f.k>>

\* combined_score[i]
FusedScore(i) ==
  <<WeightedBm25(i)[1] + WeightedFaiss(i)[1],
    WeightedBm25(i)[2] + WeightedFaiss(i)[2],
    WeightedBm25(i)[3] + WeightedFaiss(i)[3]>>

ScoreLess(a, b) == a[1] < b[1] \/ (a[1] = b[1] /\ a[2] < b[2])

\* combined_score as an array over the corpus positions
CombinedScore == [i \in 1..corpusSize |-> ScoreKey(i)]

\* what np.argsort(score) may return: the positions in ascending order of
\* score.  The default sort kind is not stable, so positions of equal score
\* come in any order.
ArgSorts(score) ==
  {p \in Permutations(DOMAIN score) :
     \A i \in DOMAIN score : \A j \in DOMAIN score :
        i < j => ~ScoreLess(score[p[j]], score[p[i]])}

\* a slice that drops the reversal: np.argsort(combined_score)[:top_n]
TopIndicesAscending(p, n, k) == [r \in 1..Min(n, k) |-> p[r]]

\* np.argsort(combined_score)[::-1][:top_n]
TopIndices(p, n, k) == [r \in 1..Min(n, k) |-> p[n + 1 - r]]

\* the returned lines: f"{i+1},{short_filename},{score:.3f}" per top document
Localize ==
  /\ rankPc = "call"
  /\ LET score == CombinedScore IN
     \E p \in ArgSorts(score) :
       LET top == TopIndices(p, corpusSize, topN) IN
       result' = [r \in 1..Len(top) |->
                    [rank |-> r, doc |-> top[r], score |-> score[top[r]]]]
  /\ rankPc' = "returned"
  /\ UNCHANGED <<pipeVars, callVars, indexVars, evalVars, textVars, logVars, corpusSize, queryEmpty, bm25Scores, faissDist,
                  weights, topN>>

(***************************************************************************)
(* index_source_code and its persisted artifacts.                          *)
(***************************************************************************)
\* the corpus directories index_source_code is called on
Dirs == {"A", "B"}

NoArtifact == [dir |-> "none", size |-> 0]

\* an index built from the documents loaded from directory d: it remembers
\* which documents it holds (corpus_size for BM25, the vectors for FAISS)
Corpus(d) == [dir |-> d, size |-> docCount[d]]

NoReturn == [kind |-> "none"]
IndexRaised == [kind |-> "raised"]
IndexTriple(bm25, faiss, d) ==
  [kind |-> "triple", bm25_index |-> bm25, faiss_index |-> faiss,
   processed_documents |-> Corpus(d)]

\* index_source_code(source_code_dir).  The documents are loaded from d (the
\* loaders may raise).  "bm25_index.pkl" is loaded if that file exists, else
\* built from d's documents and saved.  The embedder is constructed (it may
\* raise).  "faiss_index_dir" is loaded if it exists and is not empty, else
\* built from d's documents and saved.  Both are read back from disk and
\* returned with d's processed documents.
IndexSourceCode(d) ==
  /\ indexArg' = d
  /\ \E loadOk \in BOOLEAN, embedOk \in BOOLEAN :
       IF ~loadOk
         THEN /\ indexRet' = IndexRaised
              /\ UNCHANGED <<bm25Pkl, faissIndexDir>>
         ELSE LET pkl == IF bm25Pkl # NoArtifact THEN bm25Pkl ELSE Corpus(d)
                  fdir == IF faissIndexDir # NoArtifact
                            THEN faissIndexDir ELSE Corpus(d)
              IN /\ bm25Pkl' = pkl
                 /\ IF embedOk
                      THEN /\ faissIndexDir' = fdir
                           /\ indexRet' = IndexTriple(pkl, fdir, d)
                      ELSE /\ indexRet' = IndexRaised
                           /\ UNCHANGED faissIndexDir
  /\ UNCHANGED <<pipeVars, callVars, rankVars, evalVars, textVars, logVars, docCount>>

(***************************************************************************)
(* The evaluator, evaluate2.py.                                            *)
(*                                                                         *)
(* Reciprocal ranks and precisions are fractions with denominators up to   *)
(* MaxResultLen; they are kept as integer multiples of 1/Scale, and the    *)
(* returned metrics as fractions num/den.                                  *)
(***************************************************************************)
EvalBugs == 1..MaxEvalBugs
FileIds == 1..MaxFileIds

\* what load_search_results can return: the file names of the lines of a
\* result file in order, a name possibly more than once; the empty list for
\* a file that is missing or holds no line
ResultLists == UNION {[1..n -> FileIds] : n \in 0..MaxResultLen}

\* the keys of hit_at_k_baseline / hit_at_k_extended
HitKs == {1, 5, 10}

RECURSIVE Factorial(_)
Factorial(n) == IF n <= 1 THEN 1 ELSE n * Factorial(n - 1)

Scale == Factorial(MaxResultLen) * Factorial(MaxResultLen)

Frac(n, d) == [num |-> n, den |-> d]
ZeroFrac == Frac(0, 1)

NoResults == <<>>

\* a filter that keeps every ground-truth file id without looking at the disk
ExistingOfUnfiltered(gt) == gt

\* check_source_code_existence: existing / missing per ground-truth set
ExistingOf(gt) == {f \in gt : f \in existsOnDisk}
MissingOf(gt) == {f \in gt : f \notin existsOnDisk}

CheckSourceCodeExistence ==
  /\ evalPc = "start"
  /\ existingFiles' = [b \in EvalBugs |-> ExistingOf(groundTruth[b])]
  /\ missingFiles' = [b \in EvalBugs |-> MissingOf(groundTruth[b])]
  /\ bugsAllMissing' =
       {b \in EvalBugs : ExistingOf(groundTruth[b]) = {} /\ groundTruth[b] # {}}
  /\ bugsSomeMissing' =
       {b \in EvalBugs : /\ ~(ExistingOf(groundTruth[b]) = {} /\ groundTruth[b] # {})
                         /\ MissingOf(groundTruth[b]) # {}}
  /\ evalPc' = "checked"
  /\ UNCHANGED <<pipeVars, callVars, rankVars, indexVars, textVars, logVars, groundTruth, existsOnDisk,
                 loadedBugs, resultFiles, searchData, evalResults>>

\* evaluate_query_type: considered_bugs
ConsideredBugs == {b \in EvalBugs : existingFiles[b] # {}}

\* evaluate_query_type, one iteration of `for bug_id in considered_bugs`: the
\* two result files of the bug are loaded and enter search_data only if both
\* lists are non-empty
LoadSearchResults(b) ==
  /\ evalPc = "checked"
  /\ b \in ConsideredBugs \ loadedBugs
  /\ \A c \in ConsideredBugs : c < b => c \in loadedBugs
  /\ \E base \in ResultLists, ext \in ResultLists :
       /\ resultFiles' = [resultFiles EXCEPT ![b] =
                            [baseline |-> base, extended |-> ext]]
       /\ searchData' = IF base # <<>> /\ ext # <<>>
                          THEN searchData \cup {b} ELSE searchData
  /\ loadedBugs' = loadedBugs \cup {b}
  /\ UNCHANGED <<pipeVars, callVars, rankVars, indexVars, textVars, logVars, evalPc, groundTruth, existsOnDisk,
                 existingFiles, missingFiles, bugsAllMissing, bugsSomeMissing,
                 evalResults>>

\* [i + 1 for i, result in enumerate(files) if result in groundtruth_set]
RECURSIVE RanksFrom(_, _, _)
RanksFrom(list, rel, i) ==
  IF i > Len(list) THEN <<>>
  ELSE (IF list[i] \in rel THEN <<i>> ELSE <<>>) \o RanksFrom(list, rel, i + 1)

RelevantRanks(list, rel) == RanksFrom(list, rel, 1)

\* float('inf'): larger than every rank, equal to itself
RankInf == MaxResultLen + 1

\* a first rank that takes the last relevant position instead of the first
LastRank(ranks) == IF ranks # <<>> THEN ranks[Len(ranks)] ELSE RankInf

\* baseline_ranks[0] if baseline_ranks else float('inf')
FirstRank(ranks) == IF ranks # <<>> THEN ranks[1] ELSE RankInf

\* a comparison under which two missing ranks are unordered (neither less,
\* equal nor greater) and fall in no category
RankCompareUnordered(ext, base) ==
  IF ext = RankInf /\ base = RankInf THEN "none"
  ELSE IF ext < base THEN "improved"
  ELSE IF ext = base THEN "identical"
  ELSE "worse"

\* the if / elif / else on extended_rank and baseline_rank
RankCompare(ext, base) ==
  IF ext < base THEN "improved"
  ELSE IF ext = base THEN "identical"
  ELSE "worse"

\* the term added to mrr_*_sum, in 1/Scale
ReciprocalRank(rank) == IF rank # RankInf THEN Scale \div rank ELSE 0

\* the loop of calculate_average_precision from position i on, with the hits
\* and the precision sum (in 1/Scale) so far
RECURSIVE PrecisionLoop(_, _, _, _, _)
PrecisionLoop(list, rel, i, hits, sum) ==
  IF i > Len(list) THEN [hits |-> hits, precision_sum |-> sum]
  ELSE IF list[i] \in rel
    THEN PrecisionLoop(list, rel, i + 1, hits + 1, sum + (Scale * (hits + 1)) \div i)
    ELSE PrecisionLoop(list, rel, i + 1, hits, sum)

\* an average precision that returns the precision sum without dividing it
AveragePrecisionUndivided(list, rel) ==
  PrecisionLoop(list, rel, 1, 0, 0).precision_sum

\* calculate_average_precision, in 1/Scale
AveragePrecision(list, rel) ==
  LET r == PrecisionLoop(list, rel, 1, 0, 0)
  IN IF r.hits > 0 THEN r.precision_sum \div r.hits ELSE 0

\* any(result in groundtruth_set for result in files[:k])
HitAtK(list, rel, k) == \E i \in 1..Min(k, Len(list)) : list[i] \in rel

RECURSIVE SumOf(_, _)
SumOf(f, S) ==
  IF S = {} THEN 0
  ELSE LET x == CHOOSE y \in S : TRUE IN f[x] + SumOf(f, S \ {x})

\* the metrics of one variant ("baseline" or "extended") over the included bugs
VariantMetrics(inc, v) ==
  LET total == Cardinality(inc)
      hit(k) == Cardinality({b \in inc : HitAtK(resultFiles[b][v], existingFiles[b], k)})
      hitPercent(k) == IF total # 0 THEN Frac(hit(k) * 100, total) ELSE ZeroFrac
      mrrSum == SumOf([b \in inc |->
                  ReciprocalRank(FirstRank(RelevantRanks(resultFiles[b][v],
                                                         existingFiles[b])))], inc)
      mapSum == SumOf([b \in inc |->
                  AveragePrecision(resultFiles[b][v], existingFiles[b])], inc)
  IN [hit1 |-> hitPercent(1), hit5 |-> hitPercent(5), hit10 |-> hitPercent(10),
      mrr |-> IF total > 0 THEN Frac(mrrSum, Scale * total) ELSE ZeroFrac,
      map |-> IF total > 0 THEN Frac(mapSum * 100, Scale * total) ELSE ZeroFrac]

\* compute_evaluation on search_data sd with existing_files as ground truth,
\* in the shape evaluate_query_type returns.  A key of search_data whose
\* ground-truth set is empty is skipped.
ComputeEvaluation(sd) ==
  LET inc == {b \in sd : existingFiles[b] # {}}
      first(b, v) == FirstRank(RelevantRanks(resultFiles[b][v], existingFiles[b]))
      count(c) == Cardinality({b \in inc :
                     RankCompare(first(b, "extended"), first(b, "baseline")) = c})
      ranks == [b \in inc |->
                  [baseline_rank |-> RelevantRanks(resultFiles[b].baseline, existingFiles[b]),
                   extended_rank |-> RelevantRanks(resultFiles[b].extended, existingFiles[b])]]
  IN [baseline |-> VariantMetrics(inc, "baseline"),
      extended |-> VariantMetrics(inc, "extended"),
      qe_stats |-> [improved |-> count("improved"),
                    identical |-> count("identical"),
                    worse |-> count("worse")],
      considered_bugs |-> Cardinality(DOMAIN ranks),
      bug_report_ranks |-> ranks]

\* evaluate_query_type after its loading loop: compute_evaluation and the
\* formatting of its result
EvaluateQueryType ==
  /\ evalPc = "checked"
  /\ loadedBugs = ConsideredBugs
  /\ evalResults' = ComputeEvaluation(searchData)
  /\ evalPc' = "done"
  /\ UNCHANGED <<pipeVars, callVars, rankVars, indexVars, textVars, logVars, groundTruth, existsOnDisk,
                 existingFiles, missingFiles, bugsAllMissing, bugsSomeMissing,
                 loadedBugs, resultFiles, searchData>>

(***************************************************************************)
(* Strings and file ids.                                                   *)
(*                                                                         *)
(* A string is the sequence of its characters, so that splitting, joining  *)
(* and prefix tests are computed the way the Python code computes them.    *)
(***************************************************************************)
\* no string: the value of a variable before the call that assigns it
NoString == <<"none">>

StartsWith(s, prefix) ==
  Len(s) >= Len(prefix) /\ SubSeq(s, 1, Len(prefix)) = prefix

EndsWith(s, suffix) ==
  Len(s) >= Len(suffix) /\ SubSeq(s, Len(s) - Len(suffix) + 1, Len(s)) = suffix

\* str.split(sep) for a one-character separator: the pieces between the
\* separators, empty pieces included
RECURSIVE SplitFrom(_, _, _, _, _)
SplitFrom(s, sep, i, cur, acc) ==
  IF i > Len(s) THEN Append(acc, cur)
  ELSE IF s[i] = sep THEN SplitFrom(s, sep, i + 1, <<>>, Append(acc, cur))
  ELSE SplitFrom(s, sep, i + 1, Append(cur, s[i]), acc)

Split(s, sep) == SplitFrom(s, sep, 1, <<>>, <<>>)

\* sep.join(parts)
RECURSIVE Join(_, _)
Join(parts, sep) ==
  IF parts = <<>> THEN <<>>
  ELSE IF Len(parts) = 1 THEN parts[1]
  ELSE parts[1] \o sep \o Join(Tail(parts), sep)

\* str.strip()
RECURSIVE StripLeft(_)
StripLeft(s) == IF s # <<>> /\ s[1] = " " THEN StripLeft(Tail(s)) ELSE s

RECURSIVE StripRight(_)
StripRight(s) ==
  IF s # <<>> /\ s[Len(s)] = " " THEN StripRight(SubSeq(s, 1, Len(s) - 1)) ELSE s

Strip(s) == StripRight(StripLeft(s))

\* os.path.join(*parts) on POSIX: a part that starts with '/' restarts the
\* path; a separator is added unless the path so far is empty or ends in one
RECURSIVE OsPathJoinFrom(_, _)
OsPathJoinFrom(path, parts) ==
  IF parts = <<>> THEN path
  ELSE LET b == parts[1] IN
       OsPathJoinFrom(
         IF StartsWith(b, <<"/">>) THEN b
         ELSE IF path = <<>> \/ EndsWith(path, <<"/">>) THEN path \o b
         ELSE path \o <<"/">> \o b,
         Tail(parts))

OsPathJoin(parts) == OsPathJoinFrom(parts[1], Tail(parts))

\* pathlib.Path(s).parts without the root: the components between the
\* separators, without the empty ones and the '.' ones.  The root '/' of an
\* absolute path comes before every component and starts with no letter.
PathParts(s) ==
  SelectSeq(Split(s, "/"), LAMBDA c : c # <<>> /\ c # <<".">>)

ProjectPrefix == <<"P", "r", "o", "j", "e", "c", "t">>
TablesPrefix == <<"t", "a", "b", "l", "e", "s", ".">>

\* next((i for i, part in enumerate(parts) if part.startswith("Project")), None),
\* counted from 1; 0 for None
ProjectIndex(parts) ==
  IF \E i \in 1..Len(parts) : StartsWith(parts[i], ProjectPrefix)
    THEN CHOOSE i \in 1..Len(parts) :
           /\ StartsWith(parts[i], ProjectPrefix)
           /\ \A j \in 1..(i - 1) : ~StartsWith(parts[j], ProjectPrefix)
    ELSE 0

\* f"{i+1},{short_filename},{score:.3f}" of the top document
ResultLine(short_filename) ==
  <<"1", ",">> \o short_filename \o <<",", "0", ".", "5", "0", "0">>

\* what Agent.run returns when the tool raised: "Error: ..."
ErrorLine == <<"E", "r", "r", "o", "r", ":">>

\* get_short_filename inside bug_localization_BM25_and_FAISS: the parts after
\* the first one that starts with 'Project', joined with '.'.  With no such
\* part dot_path is never bound and `return dot_path` raises
\* UnboundLocalError, which Agent.run turns into the error string.
GetShortFilename ==
  /\ pathPc = "doc"
  /\ LET parts == PathParts(srcPath)
         project_index == ProjectIndex(parts)
     IN IF project_index # 0
          THEN /\ resultLine' =
                    ResultLine(Join(PathParts(Join(SubSeq(parts, project_index + 1,
                                                          Len(parts)), <<"/">>)),
                                    <<".">>))
               /\ pathPc' = "ranked"
          ELSE /\ resultLine' = ErrorLine
               /\ pathPc' = "raised"
  /\ UNCHANGED <<pipeVars, callVars, rankVars, indexVars, evalVars, logVars, ppVars, bmVars, srcPath, rankedId, gtLine, gtId>>

\* load_search_results on one line: the second comma-separated field, without
\* a leading 'tables.', its dots but the last turned into separators; NoString
\* for a line without a second field, which appends nothing
ParseResultLine(l) ==
  LET line == Strip(l)
      parts == Split(line, ",")
  IN IF line # <<>> /\ Len(parts) >= 2
       THEN LET filename == Strip(parts[2])
                stripped == IF StartsWith(filename, TablesPrefix)
                              THEN SubSeq(filename, 8, Len(filename))
                              ELSE filename
                filename_parts == Split(stripped, ".")
            IN IF Len(filename_parts) > 1
                 THEN OsPathJoin(SubSeq(filename_parts, 1, Len(filename_parts) - 1))
                        \o <<".">> \o filename_parts[Len(filename_parts)]
                 ELSE stripped
       ELSE NoString

\* the evaluator reads the line of the result file
LoadResultLine ==
  /\ pathPc \in {"ranked", "raised"}
  /\ rankedId' = ParseResultLine(resultLine)
  /\ pathPc' = "loaded"
  /\ UNCHANGED <<pipeVars, callVars, rankVars, indexVars, evalVars, logVars, ppVars, bmVars, srcPath, resultLine, gtLine, gtId>>

\* normalize_file_path
NormalizeFilePathOf(file_path) ==
  LET path == Strip(file_path)
      parts == Split(path, ".")
  IN IF Len(parts) > 1
       THEN OsPathJoin(SubSeq(parts, 1, Len(parts) - 1)) \o <<".">> \o parts[Len(parts)]
       ELSE path

\* load_ground_truth normalizes one file line
NormalizeFilePath ==
  /\ pathPc # "idle"
  /\ gtId = NoString
  /\ gtId' = NormalizeFilePathOf(gtLine)
  /\ UNCHANGED <<pipeVars, callVars, rankVars, indexVars, evalVars, logVars, ppVars, bmVars, pathPc, srcPath, resultLine, rankedId, gtLine>>

\* the files of the model: a project directory, the corpus root 'tables'
\* under it, and below that up to MaxPathDepth directories and a file
DataDir == <<"d", "a", "t", "a">>
ProjectDirs == {<<"P", "r", "o", "j", "e", "c", "t", "3">>, <<"r", "e", "p", "o">>}
CorpusRoot == <<"t", "a", "b", "l", "e", "s">>
DirNames == {<<"s", "r", "c">>, <<"v", "1", ".", "2">>}
FileNames == {<<"D", ".", "p", "h", "p">>, <<"a", ".", "m", "i", "n", ".", "j", "s">>}

\* the components of a file's path below the corpus root
RelPaths ==
  {dirs \o <<f>> : dirs \in UNION {[1..n -> DirNames] : n \in 0..MaxPathDepth},
                   f \in FileNames}

\* the file's path as index_source_code records it: os.path.abspath(source)
SourcePath(project, rel) ==
  <<"/">> \o Join(<<DataDir, project, CorpusRoot>> \o rel, <<"/">>)

\* the file's path relative to the corpus root
RelativePath(rel) == Join(rel, <<"/">>)

(***************************************************************************)
(* preprocess_text.                                                        *)
(***************************************************************************)
\* the characters of the model's texts, by the classes the patterns use
LowerLetters == {"a", "c", "e", "h", "p", "s", "t", "w"}
UpperLetters == {"C"}
Digits == {"1"}

IsLower(c) == c \in LowerLetters
IsUpper(c) == c \in UpperLetters
IsDigit(c) == c \in Digits
IsSpace(c) == c = " "
\* \w
IsWordChar(c) == IsLower(c) \/ IsUpper(c) \/ IsDigit(c) \/ c = "_"

\* str.lower() on one character
ToLower(c) == IF c = "C" THEN "c" ELSE c

\* the literal lit stands in s at position i
At(s, i, lit) ==
  i + Len(lit) - 1 <= Len(s) /\ SubSeq(s, i, i + Len(lit) - 1) = lit

\* \S+ from position i: the last position of the run of non-space characters
\* that starts at i (i - 1 when there is none)
RECURSIVE NonSpaceEnd(_, _)
NonSpaceEnd(s, i) ==
  IF i <= Len(s) /\ ~IsSpace(s[i]) THEN NonSpaceEnd(s, i + 1) ELSE i - 1

\* https?:// at position i: the position of its last character, or 0
HttpSchemeEnd(s, i) ==
  IF At(s, i, <<"h", "t", "t", "p", "s", ":", "/", "/">>) THEN i + 7
  ELSE IF At(s, i, <<"h", "t", "t", "p", ":", "/", "/">>) THEN i + 6
  ELSE 0

\* \!\[.*?\]\(https?://\S+?\) at position i: the position of the last character
\* of the match, or 0.  The lazy parts take the first ']' and the first ')'
\* for which the rest matches.
MarkdownImageEnd(s, i) ==
  LET ends == {k \in (i + 1)..Len(s) :
                 /\ At(s, i, <<"!", "[">>)
                 /\ s[k] = ")"
                 /\ \E j \in (i + 2)..k :
                      /\ At(s, j, <<"]", "(">>)
                      /\ LET u == HttpSchemeEnd(s, j + 2) IN
                         /\ u > 0
                         /\ u + 2 <= k
                         /\ \A x \in (u + 1)..(k - 1) : ~IsSpace(s[x])
                      /\ \A j2 \in (i + 2)..(j - 1) :
                           ~(/\ At(s, j2, <<"]", "(">>)
                             /\ LET u2 == HttpSchemeEnd(s, j2 + 2) IN
                                /\ u2 > 0
                                /\ \E k2 \in (u2 + 2)..Len(s) :
                                     /\ s[k2] = ")"
                                     /\ \A x \in (u2 + 1)..(k2 - 1) : ~IsSpace(s[x]))}
  IN IF ends = {} THEN 0 ELSE CHOOSE k \in ends : \A k2 \in ends : k <= k2

\* regex.sub(r'\!\[.*?\]\(https?://\S+?\)', '', s), from position i on
RECURSIVE RemoveMarkdownImages(_, _)
RemoveMarkdownImages(s, i) ==
  IF i > Len(s) THEN <<>>
  ELSE LET k == MarkdownImageEnd(s, i) IN
       IF k > 0 THEN RemoveMarkdownImages(s, k + 1)
       ELSE <<s[i]>> \o RemoveMarkdownImages(s, i + 1)

\* https?://\S+|www\.\S+ at position i: the position of the last character of
\* the match, or 0
UrlEnd(s, i) ==
  LET u == HttpSchemeEnd(s, i) IN
  IF u > 0 /\ NonSpaceEnd(s, u + 1) > u THEN NonSpaceEnd(s, u + 1)
  ELSE IF At(s, i, <<"w", "w", "w", ".">>) /\ NonSpaceEnd(s, i + 4) > i + 3
    THEN NonSpaceEnd(s, i + 4)
  ELSE 0

\* regex.sub(r'https?://\S+|www\.\S+', '', s), from position i on
RECURSIVE RemoveUrls(_, _)
RemoveUrls(s, i) ==
  IF i > Len(s) THEN <<>>
  ELSE LET k == UrlEnd(s, i) IN
       IF k > 0 THEN RemoveUrls(s, k + 1)
       ELSE <<s[i]>> \o RemoveUrls(s, i + 1)

\* regex.sub(r'([a-z0-9])([A-Z])', r'\1 \2', s): a space between a lower-case
\* letter or digit and the upper-case letter after it
RECURSIVE SplitCamelCase(_, _)
SplitCamelCase(s, i) ==
  IF i > Len(s) THEN <<>>
  ELSE (IF (IsLower(s[i]) \/ IsDigit(s[i])) /\ i < Len(s) /\ IsUpper(s[i + 1])
          THEN <<s[i], " ">> ELSE <<s[i]>>)
       \o SplitCamelCase(s, i + 1)

\* regex.sub(r'([A-Z]+)([A-Z][a-z])', r'\1 \2', s): a space before the last
\* letter of an upper-case run of two or more that a lower-case letter follows
RECURSIVE SplitAcronyms(_, _)
SplitAcronyms(s, i) ==
  IF i > Len(s) THEN <<>>
  ELSE (IF /\ i > 1 /\ IsUpper(s[i - 1]) /\ IsUpper(s[i])
           /\ i < Len(s) /\ IsLower(s[i + 1])
          THEN <<" ", s[i]>> ELSE <<s[i]>>)
       \o SplitAcronyms(s, i + 1)

\* s.replace('_', ' ')
ReplaceUnderscores(s) == [i \in 1..Len(s) |-> IF s[i] = "_" THEN " " ELSE s[i]]

\* s.lower()
Lower(s) == [i \in 1..Len(s) |-> ToLower(s[i])]

\* s.split(): the maximal runs of non-space characters
SplitWords(s) == SelectSeq(Split(s, " "), LAMBDA w : w # <<>>)

\* regex.sub(r"[\s]+|[^\w\s]|[\d]+", " ", s), from position i on: a run of
\* spaces, a character that is neither a word character nor a space, and a run
\* of digits each become one space
RECURSIVE ReplacePunctuation(_, _)
ReplacePunctuation(s, i) ==
  IF i > Len(s) THEN <<>>
  ELSE IF IsSpace(s[i]) THEN
    LET k == CHOOSE k \in i..Len(s) :
               /\ \A x \in i..k : IsSpace(s[x])
               /\ (k = Len(s) \/ ~IsSpace(s[k + 1]))
    IN <<" ">> \o ReplacePunctuation(s, k + 1)
  ELSE IF ~IsWordChar(s[i]) THEN <<" ">> \o ReplacePunctuation(s, i + 1)
  ELSE IF IsDigit(s[i]) THEN
    LET k == CHOOSE k \in i..Len(s) :
               /\ \A x \in i..k : IsDigit(s[x])
               /\ (k = Len(s) \/ ~IsDigit(s[k + 1]))
    IN <<" ">> \o ReplacePunctuation(s, k + 1)
  ELSE <<s[i]>> \o ReplacePunctuation(s, i + 1)

\* preprocess_text up to the second text.split(): URLs removed, camelCase and
\* acronyms split, underscores replaced, lower-cased, stop words removed,
\* punctuation and digits replaced
CleanedWords(bug_report_content, stop) ==
  LET noImages == RemoveMarkdownImages(bug_report_content, 1)
      noUrls == RemoveUrls(noImages, 1)
      camel == SplitCamelCase(noUrls, 1)
      acronyms == SplitAcronyms(camel, 1)
      spaced == ReplaceUnderscores(acronyms)
      words == SelectSeq(SplitWords(Lower(spaced)), LAMBDA w : w \notin stop)
      text == ReplacePunctuation(Join(words, <<" ">>), 1)
  IN SplitWords(text)

\* a preprocess_text without the second stop-word removal
PreprocessTextOnePass(bug_report_content, stop) ==
  Join(SelectSeq(CleanedWords(bug_report_content, stop),
                 LAMBDA w : Len(w) >= MinWordLen),
       <<" ">>)

\* preprocess_text: stop words removed again, words of fewer than 3 characters
\* removed, the rest joined with single spaces
PreprocessTextOf(bug_report_content, stop) ==
  Join(SelectSeq(SelectSeq(CleanedWords(bug_report_content, stop),
                           LAMBDA w : w \notin stop),
                 LAMBDA w : Len(w) >= MinWordLen),
       <<" ">>)

\* preprocess_text(ppIn)
PreprocessText ==
  /\ ppCalls = 0
  /\ ppOut' = PreprocessTextOf(ppIn, stopwords)
  /\ ppCalls' = 1
  /\ UNCHANGED <<pipeVars, callVars, rankVars, indexVars, evalVars, logVars, pathVars, bmVars, stopwords, ppIn>>

\* preprocess_text applied to what it returned
PreprocessTextAgain ==
  /\ ppCalls = 1
  /\ ppIn' = ppOut
  /\ ppOut' = PreprocessTextOf(ppOut, stopwords)
  /\ ppCalls' = 2
  /\ UNCHANGED <<pipeVars, callVars, rankVars, indexVars, evalVars, logVars, pathVars, bmVars, stopwords>>

\* the pieces the model's texts are made of: words, a stop word, an
\* upper-case letter, a digit, punctuation, a space and the openings of a URL
\* and of a markdown image
Chunks ==
  {<<"t", "h", "e">>, <<"a">>, <<"C">>, <<"1">>, <<"_">>, <<".">>, <<" ">>,
   <<"w", "w", "w", ".">>, <<"h", "t", "t", "p", ":", "/", "/">>,
   <<"!", "[", "]", "(">>, <<")">>}

RECURSIVE Concat(_)
Concat(chunks) == IF chunks = <<>> THEN <<>> ELSE chunks[1] \o Concat(Tail(chunks))

Texts == {Concat(cs) : cs \in UNION {[1..n -> Chunks] : n \in 0..MaxChunks}}

\* what stop_words_english.txt holds
StopwordFiles == {{<<"t", "h", "e">>}}

(***************************************************************************)
(* BM25Okapi as index_source_code builds it and the ranker queries it.     *)
(*                                                                         *)
(* BM25Okapi takes each document, and get_scores its query, as an iterable *)
(* of terms: it loops `for word in document` and `for q in query`.  The    *)
(* terms of a sequence are its elements: of a list of words the words, of  *)
(* a string the characters.  A score is a sum of idf(q) * (a positive      *)
(* factor) over the query terms q that occur in the document, so it is     *)
(* kept as the sign that sum has.                                          *)
(***************************************************************************)
\* the terms a loop over x yields
TermsOf(x) == {x[i] : i \in 1..Len(x)}

\* frequencies: term -> occurrences in the document
Frequencies(document) ==
  [t \in TermsOf(document) |-> Cardinality({i \in 1..Len(document) : document[i] = t})]

\* nd: term -> number of documents that hold it
DocumentCounts(corpus) ==
  [t \in UNION {TermsOf(corpus[d]) : d \in 1..Len(corpus)} |->
     Cardinality({d \in 1..Len(corpus) : t \in TermsOf(corpus[d])})]

RECURSIVE Product(_, _)
Product(f, S) ==
  IF S = {} THEN 1
  ELSE LET x == CHOOSE y \in S : TRUE IN f[x] * Product(f, S \ {x})

Sign(x) == IF x > 0 THEN 1 ELSE IF x < 0 THEN -1 ELSE 0

\* _calc_idf, by sign.  idf = log(N - n + 0.5) - log(n + 0.5) has the sign of
\* N - 2n.  The sum of the idfs is the log of the product of the ratios
\* (2N - 2n + 1) / (2n + 1), and a negative idf is replaced by
\* epsilon * average_idf, which has the sign of that sum.
IdfSigns(nd, N) ==
  LET averageSign ==
        Sign(Product([t \in DOMAIN nd |-> 2 * N - 2 * nd[t] + 1], DOMAIN nd)
             - Product([t \in DOMAIN nd |-> 2 * nd[t] + 1], DOMAIN nd))
  IN [t \in DOMAIN nd |->
        IF N - 2 * nd[t] < 0 THEN averageSign ELSE Sign(N - 2 * nd[t])]

\* BM25Okapi(corpus)
BM25Okapi(corpus) ==
  [corpus_size |-> Len(corpus),
   doc_freqs |-> [d \in 1..Len(corpus) |-> Frequencies(corpus[d])],
   idf |-> IdfSigns(DocumentCounts(corpus), Len(corpus))]

\* the sign of a sum of terms with the given non-zero signs
SumSign(signs) ==
  IF signs = {} THEN "zero"
  ELSE IF signs = {1} THEN "positive"
  ELSE IF signs = {-1} THEN "negative"
  ELSE "mixed"

\* bm25_index.get_scores(query): per document the sum over the query terms q
\* of (idf.get(q) or 0) * q_freq * (k1 + 1) / (q_freq + k1 * (...)), which is
\* 0 for a term the document does not hold
GetScoresOf(index, query) ==
  [d \in 1..index.corpus_size |->
     SumSign({index.idf[q] : q \in TermsOf(query) \cap DOMAIN index.doc_freqs[d]}
             \ {0})]

\* index_source_code: tokenized_corpus holds what preprocess_text returns for
\* each document, a string, and BM25Okapi is built from that list
BuildBm25 ==
  /\ bmPc = "corpus"
  /\ bm25Index' = BM25Okapi(tokenizedCorpus)
  /\ bmPc' = "built"
  /\ UNCHANGED <<pipeVars, callVars, rankVars, indexVars, evalVars, logVars, pathVars, ppVars,
                 tokenizedCorpus, bugReportQuery, scoreSigns>>

\* bug_localization_BM25_and_FAISS: get_scores is given the query string
GetScores ==
  /\ bmPc = "built"
  /\ scoreSigns' = GetScoresOf(bm25Index, bugReportQuery)
  /\ bmPc' = "scored"
  /\ UNCHANGED <<pipeVars, callVars, rankVars, indexVars, evalVars, logVars, pathVars, ppVars,
                 tokenizedCorpus, bugReportQuery, bm25Index>>

\* the words preprocess_text leaves in the model's documents and queries
NormalizedWords == {<<"a", "c", "t">>, <<"c", "a", "t">>, <<"h", "e", "w">>}

\* what preprocess_text returns: up to n words joined by single spaces
NormalizedTexts(n) ==
  {Join(ws, <<" ">>) : ws \in UNION {[1..k -> NormalizedWords] : k \in 1..n}}

NoIndex == [corpus_size |-> 0]

(***************************************************************************)
(* log_event, statement by statement.                                      *)
(*                                                                         *)
(* The event loop runs one task at a time (`running`); a task keeps the    *)
(* loop until it suspends.  asyncio.Lock.acquire returns without           *)
(* suspending when the lock is free and suspends the task otherwise; the   *)
(* file append and the release do not suspend.  The tools that read the    *)
(* shared indexes run between two log_event calls of a worker.             *)
(***************************************************************************)
\* the tasks that call log_event: three of the workers
LogTasks == {ReadW, KeybertW, <<"localize", 1>>}

NoTask == <<"none", 0>>

\* the event loop resumes a task that is ready; the task calls log_event
LoopResume(t) ==
  /\ running = NoTask
  /\ lpc[t] = "ready"
  /\ logCalls[t] < MaxLogEvents
  /\ running' = t
  /\ lpc' = [lpc EXCEPT ![t] = "call"]
  /\ UNCHANGED <<pipeVars, callVars, rankVars, indexVars, evalVars, textVars,
                 lockHolder, logCalls, logFile, sharedIndex>>

\* an `async with` that enters the body without taking the lock
LockAcquireSkipped(t) ==
  /\ running = t
  /\ lpc[t] = "call"
  /\ lpc' = [lpc EXCEPT ![t] = "locked"]
  /\ UNCHANGED <<running, lockHolder>>

\* async with log_lock: the lock is taken if it is free, else the task
\* suspends in acquire until a release wakes it
LockAcquire(t) ==
  /\ running = t
  /\ lpc[t] = "call"
  /\ IF lockHolder = NoTask
       THEN /\ lockHolder' = t
            /\ lpc' = [lpc EXCEPT ![t] = "locked"]
            /\ UNCHANGED running
       ELSE /\ lpc' = [lpc EXCEPT ![t] = "waiting"]
            /\ running' = NoTask
            /\ UNCHANGED lockHolder

\* log_event up to the body of `async with`
LogEventEnter(t) ==
  /\ LockAcquire(t)
  /\ UNCHANGED <<pipeVars, callVars, rankVars, indexVars, evalVars, textVars,
                 logCalls, logFile, sharedIndex>>

\* with open(..., "a") as f: f.write(line)
LogEventAppend(t) ==
  /\ running = t
  /\ lpc[t] = "locked"
  /\ logFile' = Append(logFile, <<t, logCalls[t] + 1>>)
  /\ lpc' = [lpc EXCEPT ![t] = "appended"]
  /\ UNCHANGED <<pipeVars, callVars, rankVars, indexVars, evalVars, textVars,
                 running, lockHolder, logCalls, sharedIndex>>

\* the end of `async with`: the lock is released and log_event returns; a
\* task waiting in acquire is made ready to try again
LogEventExit(t) ==
  /\ running = t
  /\ lpc[t] = "appended"
  /\ lockHolder' = IF lockHolder = t THEN NoTask ELSE lockHolder
  /\ lpc' = [u \in LogTasks |->
               IF u = t THEN "returned"
               ELSE IF lpc[u] = "waiting" THEN "ready" ELSE lpc[u]]
  /\ logCalls' = [logCalls EXCEPT ![t] = @ + 1]
  /\ UNCHANGED <<pipeVars, callVars, rankVars, indexVars, evalVars, textVars,
                 running, logFile, sharedIndex>>

\* after log_event the worker either logs again within the same segment
\* (put and task_done do not suspend) or reaches an await that suspends: a
\* get on an empty queue, or run_blocking of a tool that reads bm25_index and
\* faiss_index
WorkerContinue(t) ==
  /\ running = t
  /\ lpc[t] = "returned"
  /\ \E suspends \in BOOLEAN :
       IF suspends \/ logCalls[t] >= MaxLogEvents
         THEN /\ running' = NoTask
              /\ lpc' = [lpc EXCEPT ![t] = "ready"]
         ELSE /\ lpc' = [lpc EXCEPT ![t] = "call"]
              /\ UNCHANGED running
  /\ UNCHANGED <<pipeVars, callVars, rankVars, indexVars, evalVars, textVars,
                 lockHolder, logCalls, logFile, sharedIndex>>

(***************************************************************************)
(* Specifications.                                                         *)
(***************************************************************************)
\* no call of the ranker
RankIdle ==
  /\ rankPc = "idle"
  /\ corpusSize = 0
  /\ queryEmpty = FALSE
  /\ bm25Scores = <<>>
  /\ faissDist = <<>>
  /\ weights = <<0, 0>>
  /\ topN = 0
  /\ result = <<>>

\* no call of index_source_code, no artifact on disk
IndexIdle(counts) ==
  /\ docCount = counts
  /\ bm25Pkl = NoArtifact
  /\ faissIndexDir = NoArtifact
  /\ indexArg = "none"
  /\ indexRet = NoReturn

NoCorpus == [d \in Dirs |-> 0]

\* the evaluator before check_source_code_existence, on ground truth gt
EvalStart(pc, gt, disk) ==
  /\ evalPc = pc
  /\ groundTruth = gt
  /\ existsOnDisk = disk
  /\ existingFiles = [b \in EvalBugs |-> {}]
  /\ missingFiles = [b \in EvalBugs |-> {}]
  /\ bugsAllMissing = {}
  /\ bugsSomeMissing = {}
  /\ loadedBugs = {}
  /\ resultFiles = [b \in EvalBugs |-> [baseline |-> <<>>, extended |-> <<>>]]
  /\ searchData = {}
  /\ evalResults = NoResults

(***************************************************************************)
(* Agent.run.  Strings are sequences of characters, an exception is its    *)
(* message.                                                                *)
(***************************************************************************)
NoTool == "none"

\* the if/elif chain of run: the tool looked up for an agent name
Dispatch(name) ==
  CASE name = "readBugReportContent_agent" -> "readFile"
    [] name = "process_bug_report_content_agent" -> "processBugReportContent"
    [] name = "process_bug_report_query_keybert_agent" -> "processBugReportQueryKeyBERT"
    [] name = "index_source_code_agent" -> "index_source_code"
    [] name = "bug_localization_BM25_and_FAISS_agent" -> "bug_localization_BM25_and_FAISS"
    [] OTHER -> NoTool

\* the positional parameters of the tools
Arity(tool) ==
  CASE tool = "readFile" -> 1
    [] tool = "processBugReportContent" -> 1
    [] tool = "processBugReportQueryKeyBERT" -> 2
    [] tool = "index_source_code" -> 1
    [] tool = "bug_localization_BM25_and_FAISS" -> 8

AgentOf(name, tools) == [name |-> name, tools |-> tools, outputKey |-> "file_content"]

\* the Agent instances of the module
Agents ==
  {AgentOf("readBugReportContent_agent", {"readFile"}),
   AgentOf("process_bug_report_content_agent",
           {"processBugReportContent", "preprocess_text", "load_stopwords"}),
   AgentOf("process_bug_report_query_keybert_agent", {"processBugReportQueryKeyBERT"}),
   AgentOf("process_bug_report_query_reasoning_agent", {"processBugReportQueryKeyBERT"}),
   AgentOf("index_source_code_agent", {"index_source_code"}),
   AgentOf("bug_localization_BM25_and_FAISS_agent",
           {"bug_localization_BM25_and_FAISS", "get_short_filename"})}

NoAgent == AgentOf("none", {})

Returns(value) == [kind |-> "returned", value |-> value]
Raises(message) == [kind |-> "raised", value |-> message]
NoOutcome == [kind |-> "none", value |-> <<>>]

UnknownAgent == <<"U", "n", "k", "n", "o", "w", "n", " ", "a", "g", "e", "n", "t", ".">>
ErrorPrefix == <<"E", "r", "r", "o", "r", ":", " ">>

\* what a tool can do: return a string (an empty one, or one that reads like
\* an error message) or raise an exception with some message
ToolOutcomes ==
  {Returns(<<"o", "k">>), Returns(<<>>), Returns(ErrorPrefix \o <<"x">>),
   Raises(<<"x">>), Raises(<<>>)}

\* the try block of run: the dispatch, the lookup in self.tools (KeyError)
\* and the call (TypeError when the argument count does not fit)
TryBlock(a, nargs, outcome) ==
  LET tool == Dispatch(a.name) IN
  IF tool = NoTool THEN Returns(UnknownAgent)
  ELSE IF tool \notin a.tools THEN Raises(<<"'", tool, "'">>)
  ELSE IF nargs # Arity(tool) THEN Raises(<<tool, "()", " ", "a", "r", "g", "s">>)
  ELSE outcome

\* a run without the except clause
AgentRunWithoutExcept(a, nargs, outcome) ==
  LET out == TryBlock(a, nargs, outcome) IN
  IF out.kind = "raised"
    THEN [raised |-> TRUE, mapping |-> <<>>]
    ELSE [raised |-> FALSE, mapping |-> (a.outputKey :> out.value)]

\* Agent.run(*args)
AgentRun(a, nargs, outcome) ==
  LET out == TryBlock(a, nargs, outcome) IN
  IF out.kind = "raised"
    THEN [raised |-> FALSE, mapping |-> (a.outputKey :> ErrorPrefix \o out.value)]
    ELSE [raised |-> FALSE, mapping |-> (a.outputKey :> out.value)]

NoReturnYet == [raised |-> FALSE, mapping |-> <<>>]

AgentStart(pc, a, nargs, outcome) ==
  /\ agentPc = pc
  /\ agent = a
  /\ agentArgs = nargs
  /\ toolOutcome = outcome
  /\ agentRet = NoReturnYet

\* one call of run
AgentRunCall ==
  /\ agentPc = "call"
  /\ agentPc' = "returned"
  /\ agentRet' = AgentRun(agent, agentArgs, toolOutcome)
  /\ UNCHANGED <<pipeVars, rankVars, indexVars, evalVars, textVars, logVars, loadVars, refVars, agent, agentArgs, toolOutcome>>

(***************************************************************************)
(* src/src/evaluate2.py: load_ground_truth.  A line of the file is blank,  *)
(* a header "<bug_id> <count>" whose count int() accepts, or anything else *)
(* (a file path, or two words the second of which is no integer).          *)
(***************************************************************************)
Counts == (0 - MaxCount)..MaxCount

BlankLine == [kind |-> "blank", bug |-> 0, n |-> 0]

PathLine(f) == [kind |-> "path", bug |-> 0, n |-> f]

HeaderLine(b, c) == [kind |-> "header", bug |-> b, n |-> c]

GtLines ==
  {BlankLine} \cup {PathLine(f) : f \in FileIds}
              \cup {HeaderLine(b, c) : b \in EvalBugs, c \in Counts}

GtFiles == UNION {[1..n -> GtLines] : n \in 0..MaxLines}

NoLines == <<[kind |-> "none", bug |-> 0, n |-> 0]>>

\* lines[i] of Python, i counted from 0: a negative i counts from the end,
\* and an i below -len(lines) raises IndexError
IndexOk(ls, i) == i >= 0 - Len(ls) /\ i < Len(ls)

LineAt(ls, i) == IF i >= 0 THEN ls[i + 1] ELSE ls[Len(ls) + i + 1]

\* range(a, b)
Range(a, b) == a..(b - 1)

\* the relevant_files the for loop collects after the header at i: every
\* line of the range that is not blank, a header line included
RelevantFiles(ls, i, count) ==
  {LineAt(ls, j) : j \in {k \in Range(i + 1, Min(i + 1 + count, Len(ls))) :
                            LineAt(ls, k).kind # "blank"}}

\* ground_truth[bug_id] = relevant_files
SetEntry(gt, b, fs) == {e \in gt : e[1] # b} \cup {<<b, fs>>}

LoadStart(pc, ls) ==
  /\ loadPc = pc
  /\ fileLines = ls
  /\ cursor = 0
  /\ loadedTruth = {}

\* lines 21-30: the existence test, readlines() and i = 0
LoadGroundTruth ==
  /\ loadPc = "call"
  /\ loadPc' = IF fileLines = NoLines THEN "returned" ELSE "loop"
  /\ UNCHANGED <<pipeVars, rankVars, indexVars, evalVars, textVars, logVars,
                 agentVars, refVars, fileLines, cursor, loadedTruth>>

\* lines 31-60: one iteration of `while i < len(lines)`
LoadGroundTruthLoop ==
  /\ loadPc = "loop"
  /\ cursor < Len(fileLines)
  /\ IF ~IndexOk(fileLines, cursor)
       THEN /\ loadPc' = "raised"
            /\ UNCHANGED <<cursor, loadedTruth>>
       ELSE LET line == LineAt(fileLines, cursor) IN
            /\ loadPc' = "loop"
            /\ IF line.kind = "header"
                 THEN /\ loadedTruth' = SetEntry(loadedTruth, line.bug,
                                           RelevantFiles(fileLines, cursor, line.n))
                      /\ cursor' = cursor + 1 + line.n
                 ELSE /\ cursor' = cursor + 1
                      /\ UNCHANGED loadedTruth
  /\ UNCHANGED <<pipeVars, rankVars, indexVars, evalVars, textVars, logVars,
                 agentVars, refVars, fileLines>>

\* line 62: return ground_truth
LoadGroundTruthReturn ==
  /\ loadPc = "loop"
  /\ cursor >= Len(fileLines)
  /\ loadPc' = "returned"
  /\ UNCHANGED <<pipeVars, rankVars, indexVars, evalVars, textVars, logVars,
                 agentVars, refVars, fileLines, cursor, loadedTruth>>

(***************************************************************************)
(* src/src/evaluate2.py run as a script: the first main (load_ground_truth,*)
(* check_source_code_existence, evaluate_query_type) and then the second   *)
(* main (parse_search_results, parse_groundtruth, the second               *)
(* compute_evaluation), for one query type, on the same ground-truth file, *)
(* source tree and result directory.  The ground-truth file is well formed:*)
(* one header per bug, followed by as many path lines as it announces.     *)
(***************************************************************************)
\* a result file that does not exist
MissingFile == <<0>>

NoResultFiles == [baseline |-> MissingFile, extended |-> MissingFile]

\* what a result file that exists holds: the file names of its lines
DirLists == UNION {[1..n -> FileIds] : n \in 0..Min(MaxDirLen, MaxResultLen)}

ResultDirs ==
  [EvalBugs -> [baseline : DirLists \cup {MissingFile},
                extended : DirLists \cup {MissingFile}]]

\* load_search_results(result_file)
LoadedList(file) == IF file = MissingFile THEN <<>> ELSE file

\* evaluate_query_type, one iteration of its loading loop on the files of
\* resultDir
LoadResultFiles(b) ==
  /\ LoadSearchResults(b)
  /\ resultFiles'[b] = [baseline |-> LoadedList(resultDir[b].baseline),
                        extended |-> LoadedList(resultDir[b].extended)]

\* parse_search_results: the keys of search_data of variant v
SearchKeys(dir, v) == {b \in EvalBugs : dir[b][v] # MissingFile}

\* parse_groundtruth: groundtruth_data, with (entries, non_existent_count)
\* for the bugs that have a key in search_data
ParseGroundtruth(gt, disk, dir) ==
  [b \in SearchKeys(dir, "baseline") \cup SearchKeys(dir, "extended") |->
     [entries |-> {f \in gt[b] : f \in disk},
      nonExistent |-> Cardinality({f \in gt[b] : f \notin disk})]]

\* the metrics of one variant over the bugs inc, second compute_evaluation
ReferenceMetrics(inc, v, dir, gd) ==
  LET total == Cardinality(inc)
      hit(k) == Cardinality({b \in inc : HitAtK(dir[b][v], gd[b].entries, k)})
      hitPercent(k) == IF total # 0 THEN Frac(hit(k) * 100, total) ELSE ZeroFrac
      mrrSum == SumOf([b \in inc |->
                  ReciprocalRank(FirstRank(RelevantRanks(dir[b][v], gd[b].entries)))], inc)
      mapSum == SumOf([b \in inc |-> AveragePrecision(dir[b][v], gd[b].entries)], inc)
  IN [hit1 |-> hitPercent(1), hit5 |-> hitPercent(5), hit10 |-> hitPercent(10),
      mrr |-> IF total > 0 THEN Frac(mrrSum, Scale * total) ELSE ZeroFrac,
      map |-> IF total > 0 THEN Frac(mapSum * 100, Scale * total) ELSE ZeroFrac]

\* the baseline keys for which search_data[(query_name, 'extended')] raises
\* KeyError
ExtendedKeyMissing(dir) == SearchKeys(dir, "baseline") \ SearchKeys(dir, "extended")

\* the second compute_evaluation(groundtruth_data, search_data)
ComputeEvaluationReference(gd, dir) ==
  LET keys == SearchKeys(dir, "baseline") \ ExtendedKeyMissing(dir)
      inc == {b \in keys : gd[b].entries # {}}
      first(b, v) == FirstRank(RelevantRanks(dir[b][v], gd[b].entries))
      count(c) == Cardinality({b \in inc :
                     RankCompare(first(b, "extended"), first(b, "baseline")) = c})
      ranks == [b \in inc |->
                  [baseline_rank |-> RelevantRanks(dir[b].baseline, gd[b].entries),
                   extended_rank |-> RelevantRanks(dir[b].extended, gd[b].entries)]]
  IN [baseline |-> ReferenceMetrics(inc, "baseline", dir, gd),
      extended |-> ReferenceMetrics(inc, "extended", dir, gd),
      qe_stats |-> [improved |-> count("improved"),
                    identical |-> count("identical"),
                    worse |-> count("worse")],
      considered_bugs |-> Cardinality(DOMAIN ranks),
      bug_report_ranks |-> ranks]

RefStart(pc, dir) ==
  /\ refPc = pc
  /\ resultDir = dir
  /\ refResults = NoResults

\* the second main, one iteration of `for query_type in query_types` up to
\* compute_evaluation; it runs when the first main has returned
MainReference ==
  /\ refPc = "start"
  /\ evalPc = "done"
  /\ IF ExtendedKeyMissing(resultDir) # {}
       THEN /\ refPc' = "raised"
            /\ UNCHANGED refResults
       ELSE /\ refPc' = "done"
            /\ refResults' = ComputeEvaluationReference(
                               ParseGroundtruth(groundTruth, existsOnDisk, resultDir),
                               resultDir)
  /\ UNCHANGED <<pipeVars, rankVars, indexVars, evalVars, textVars, logVars,
                 agentVars, loadVars, resultDir>>

\* no file id on its way
PathIdle ==
  /\ pathPc = "idle"
  /\ srcPath = NoString
  /\ resultLine = NoString
  /\ rankedId = NoString
  /\ gtLine = NoString
  /\ gtId = NoString

\* no call of preprocess_text
PreprocessIdle ==
  /\ stopwords = {}
  /\ ppCalls = 0
  /\ ppIn = NoString
  /\ ppOut = NoString

\* no task in log_event
LogIdle ==
  /\ running = NoTask
  /\ lockHolder = NoTask
  /\ lpc = [t \in LogTasks |-> "none"]
  /\ logCalls = [t \in LogTasks |-> 0]
  /\ logFile = <<>>
  /\ sharedIndex = "none"

\* no BM25 index
Bm25Idle ==
  /\ bmPc = "idle"
  /\ tokenizedCorpus = <<>>
  /\ bugReportQuery = NoString
  /\ bm25Index = NoIndex
  /\ scoreSigns = <<>>

\* no call of Agent.run
AgentIdle == AgentStart("idle", NoAgent, 0, NoOutcome)

\* no call of load_ground_truth
LoadIdle == LoadStart("idle", NoLines)

\* the second script does not run
RefIdle == RefStart("idle", [b \in EvalBugs |-> NoResultFiles])

CallIdle == AgentIdle /\ LoadIdle /\ RefIdle

TextIdle == PathIdle /\ PreprocessIdle /\ Bm25Idle /\ LogIdle /\ CallIdle

\* no evaluation run
EvalIdle == EvalStart("idle", [b \in EvalBugs |-> {}], {})

\* main_async of script p is about to run
PipeStart(p, n) ==
  /\ pipeline = p
  /\ nbugs = n
  /\ badQuery \in SUBSET (1..n)
  /\ mainPc = IF p = "none" THEN "idle" ELSE "start"
  /\ queue = [q \in QueueNames |-> <<>>]
  /\ unfinished = [q \in QueueNames |-> 0]
  /\ wpc = [w \in AllWorkers |-> "none"]
  /\ witem = [w \in AllWorkers |-> NoItem]
  /\ raised = [w \in AllWorkers |-> FALSE]
  /\ files = [f \in Bugs \X Kinds \X Tags |-> NoFile]
  /\ log = {}
  /\ projectNo = 1
  /\ oldTasks = [g \in Projects |-> [w \in AllWorkers |-> "none"]]

PipeInit(p) ==
  /\ TextIdle
  /\ RankIdle
  /\ IndexIdle(NoCorpus)
  /\ EvalIdle
  /\ \E n \in 0..MaxBugs : PipeStart(p, n)

\* src/src/main.py
InitMain == PipeInit("combined")

NextMain ==
  \/ MainStart
  \/ MainJoin
  \/ MainCancel
  \/ \E w \in AllWorkers : WorkerPark(w)
  \/ ReadWorker
  \/ ProcessWorker
  \/ KeybertGet
  \/ KeybertBaselineReturn
  \/ KeybertExtendedReturn
  \/ ReasonWorker
  \/ \E w \in LocalizeWs : LocalizeGet(w)
  \/ \E w \in LocalizeWs : LocalizeBaselineReturn(w)
  \/ \E w \in LocalizeWs : LocalizeExtendedReturn(w)

SpecMain == InitMain /\ [][NextMain]_vars

\* src/src/KEYBERT.py
InitKeybert == PipeInit("keybert")

NextKeybert ==
  \/ MainStart
  \/ MainJoin
  \/ MainCancel
  \/ \E w \in AllWorkers : WorkerPark(w)
  \/ ReadWorker
  \/ ProcessWorker
  \/ KeybertGet
  \/ KeybertBaselineReturn
  \/ KeybertExtendedReturn
  \/ \E w \in LocalizeWs : LocalizeGet(w)
  \/ \E w \in LocalizeWs : LocalizeBaselineReturn(w)
  \/ \E w \in LocalizeWs : LocalizeExtendedReturn(w)

SpecKeybert == InitKeybert /\ [][NextKeybert]_vars

\* src/src/KEYBERT.py on up to MaxBatchBugs bug reports, none of whose queries
\* makes the ranker raise
InitKeybertBatch ==
  /\ TextIdle
  /\ RankIdle
  /\ IndexIdle(NoCorpus)
  /\ EvalIdle
  /\ \E n \in 0..MaxBatchBugs : PipeStart("keybert", n)
  /\ badQuery = {}

SpecKeybertBatch == InitKeybertBatch /\ [][NextKeybert]_vars

\* src/main.py
InitSingle == PipeInit("single")

NextSingle ==
  \/ MainStart
  \/ MainJoin
  \/ MainCancel
  \/ \E w \in AllWorkers : WorkerPark(w)
  \/ SingleReadWorker
  \/ SingleProcessWorker
  \/ SingleKeybertWorker
  \/ \E w \in SingleLocalizeWs : SingleLocalizeFirst(w)
  \/ \E w \in SingleLocalizeWs : SingleLocalizeSecond(w)

SpecSingle == InitSingle /\ [][NextSingle]_vars

\* src/src/agents.py: one call of run on one of the agents of the module
InitAgent ==
  /\ PipeStart("none", 0)
  /\ RankIdle
  /\ IndexIdle(NoCorpus)
  /\ EvalIdle
  /\ PathIdle /\ PreprocessIdle /\ Bm25Idle /\ LogIdle /\ LoadIdle /\ RefIdle
  /\ \E a \in Agents, nargs \in 0..MaxArgs, outcome \in ToolOutcomes :
       AgentStart("call", a, nargs, outcome)

NextAgent == AgentRunCall

SpecAgent == InitAgent /\ [][NextAgent]_vars

\* src/src/evaluate2.py: one call of load_ground_truth on a missing file or
\* on a file of up to MaxLines lines
InitGroundTruth ==
  /\ PipeStart("none", 0)
  /\ RankIdle
  /\ IndexIdle(NoCorpus)
  /\ EvalIdle
  /\ PathIdle /\ PreprocessIdle /\ Bm25Idle /\ LogIdle /\ AgentIdle /\ RefIdle
  /\ \E ls \in GtFiles \cup {NoLines} : LoadStart("call", ls)

NextGroundTruth ==
  \/ LoadGroundTruth
  \/ LoadGroundTruthLoop
  \/ LoadGroundTruthReturn

SpecGroundTruth == InitGroundTruth /\ [][NextGroundTruth]_vars

\* the interpreter keeps executing the loop until the function returns
FairSpecGroundTruth == SpecGroundTruth /\ WF_vars(NextGroundTruth)

\* src/src/evaluate2.py: the two scripts of the file for one query type, for
\* every ground truth, every set of files on disk and every result directory
InitEvalPaths ==
  /\ PipeStart("none", 0)
  /\ RankIdle
  /\ IndexIdle(NoCorpus)
  /\ PathIdle /\ PreprocessIdle /\ Bm25Idle /\ LogIdle /\ AgentIdle /\ LoadIdle
  /\ \E gt \in [EvalBugs -> SUBSET FileIds], disk \in SUBSET FileIds :
       EvalStart("start", gt, disk)
  /\ \E dir \in ResultDirs : RefStart("start", dir)

NextEvalPaths ==
  \/ CheckSourceCodeExistence
  \/ \E b \in EvalBugs : LoadResultFiles(b)
  \/ EvaluateQueryType
  \/ MainReference

SpecEvalPaths == InitEvalPaths /\ [][NextEvalPaths]_vars

\* the single-family pipelines: src/src/KEYBERT.py, src/src/reason.py and
\* src/src/NLP.py
InitFamilies == \E p \in {"keybert", "reason", "nlp"} : PipeInit(p)

NextFamilies ==
  \/ MainStart
  \/ MainJoin
  \/ MainCancel
  \/ \E w \in AllWorkers : WorkerPark(w)
  \/ ReadWorker
  \/ ProcessWorker
  \/ KeybertGet
  \/ KeybertBaselineReturn
  \/ KeybertExtendedReturn
  \/ ReasonWorker
  \/ \E w \in LocalizeWs : LocalizeGet(w)
  \/ \E w \in LocalizeWs : LocalizeBaselineReturn(w)
  \/ \E w \in LocalizeWs : LocalizeExtendedReturn(w)

SpecFamilies == InitFamilies /\ [][NextFamilies]_vars

\* the event loop runs a task that is ready, the thread pool returns every
\* call, and main_async resumes once its join is satisfied
FairSpecFamilies == SpecFamilies /\ WF_vars(NextFamilies)

\* src/src/KEYBERT.py: process_all_projects goes through up to MaxProjects
\* projects, one main_async call each
NextProjects ==
  \/ NextKeybert
  \/ NextProject
  \/ OldTasksResume

SpecProjects == InitKeybert /\ [][NextProjects]_vars

\* src/src/tools.py: one call of bug_localization_BM25_and_FAISS on a non-empty
\* corpus.  get_scores of an empty query is the zero vector.  The weights are
\* those of the pipeline modules (0.3, 0.7), select one modality, or are a
\* pair a caller passes that does not sum to 1 (0.5, 0.7).
WeightChoices == {<<3, 7>>, <<10, 0>>, <<0, 10>>, <<5, 7>>}

InitRank ==
  /\ PipeStart("none", 0)
  /\ TextIdle
  /\ IndexIdle(NoCorpus)
  /\ EvalIdle
  /\ rankPc = "call"
  /\ corpusSize \in 1..MaxDocs
  /\ queryEmpty \in BOOLEAN
  /\ bm25Scores \in [1..corpusSize -> 0..MaxScore]
  /\ queryEmpty => \A i \in 1..corpusSize : bm25Scores[i] = 0
  /\ faissDist \in [1..corpusSize -> 0..MaxScore]
  /\ weights \in WeightChoices
  /\ topN \in 1..MaxTopN
  /\ result = <<>>

NextRank == Localize

SpecRank == InitRank /\ [][NextRank]_vars

\* src/src/tools.py: calls of index_source_code from one working directory,
\* which starts without artifacts, on directories of 1..MaxDocs source files
InitIndex ==
  /\ PipeStart("none", 0)
  /\ TextIdle
  /\ RankIdle
  /\ EvalIdle
  /\ \E counts \in [Dirs -> 1..MaxDocs] : IndexIdle(counts)

NextIndex == \E d \in Dirs : IndexSourceCode(d)

SpecIndex == InitIndex /\ [][NextIndex]_vars

\* src/src/evaluate2.py: one evaluation of one query type, for every ground
\* truth over the bugs and file ids and every set of files on disk
InitEval ==
  /\ PipeStart("none", 0)
  /\ TextIdle
  /\ RankIdle
  /\ IndexIdle(NoCorpus)
  /\ \E gt \in [EvalBugs -> SUBSET FileIds], disk \in SUBSET FileIds :
       EvalStart("start", gt, disk)

NextEval ==
  \/ CheckSourceCodeExistence
  \/ \E b \in EvalBugs : LoadSearchResults(b)
  \/ EvaluateQueryType

SpecEval == InitEval /\ [][NextEval]_vars

\* src/src/tools.py and src/src/evaluate2.py: the file id of one source
\* document through get_short_filename and load_search_results, and the
\* ground-truth line of that file (with or without the corpus-root segment)
\* through normalize_file_path
InitPath ==
  /\ PipeStart("none", 0)
  /\ RankIdle
  /\ IndexIdle(NoCorpus)
  /\ EvalIdle
  /\ CallIdle
  /\ PreprocessIdle
  /\ LogIdle
  /\ Bm25Idle
  /\ pathPc = "doc"
  /\ \E project \in ProjectDirs, rel \in RelPaths :
       /\ srcPath = SourcePath(project, rel)
       /\ gtLine \in {Join(rel, <<".">>), Join(<<CorpusRoot>> \o rel, <<".">>)}
  /\ resultLine = NoString
  /\ rankedId = NoString
  /\ gtId = NoString

NextPath ==
  \/ GetShortFilename
  \/ LoadResultLine
  \/ NormalizeFilePath

SpecPath == InitPath /\ [][NextPath]_vars

\* src/src/tools.py: preprocess_text on a text, then on its own output, with
\* the same stop-word file
InitPreprocess ==
  /\ PipeStart("none", 0)
  /\ RankIdle
  /\ IndexIdle(NoCorpus)
  /\ EvalIdle
  /\ CallIdle
  /\ PathIdle
  /\ LogIdle
  /\ Bm25Idle
  /\ stopwords \in StopwordFiles
  /\ ppCalls = 0
  /\ ppIn \in Texts
  /\ ppOut = NoString

NextPreprocess ==
  \/ PreprocessText
  \/ PreprocessTextAgain

SpecPreprocess == InitPreprocess /\ [][NextPreprocess]_vars

\* src/src/tools.py: a BM25 index built by index_source_code from 1..MaxDocs
\* normalized documents and queried by the ranker with a normalized query
InitBm25 ==
  /\ PipeStart("none", 0)
  /\ RankIdle
  /\ IndexIdle(NoCorpus)
  /\ EvalIdle
  /\ CallIdle
  /\ PathIdle
  /\ LogIdle
  /\ PreprocessIdle
  /\ bmPc = "corpus"
  /\ tokenizedCorpus \in UNION {[1..n -> NormalizedTexts(MaxDocWords)] : n \in 1..MaxDocs}
  /\ bugReportQuery \in NormalizedTexts(1)
  /\ bm25Index = NoIndex
  /\ scoreSigns = <<>>

NextBm25 ==
  \/ BuildBm25
  \/ GetScores

SpecBm25 == InitBm25 /\ [][NextBm25]_vars

\* log_event of src/src/main.py, src/src/KEYBERT.py and src/src/reason.py:
\* main_async has assigned the shared indexes and created the worker tasks,
\* and each task makes up to MaxLogEvents calls of log_event
InitLog ==
  /\ PipeStart("none", 0)
  /\ RankIdle
  /\ IndexIdle(NoCorpus)
  /\ EvalIdle
  /\ CallIdle
  /\ PathIdle
  /\ PreprocessIdle
  /\ Bm25Idle
  /\ running = NoTask
  /\ lockHolder = NoTask
  /\ lpc = [t \in LogTasks |-> "ready"]
  /\ logCalls = [t \in LogTasks |-> 0]
  /\ logFile = <<>>
  /\ sharedIndex = "loaded"

NextLog ==
  \/ \E t \in LogTasks : LoopResume(t)
  \/ \E t \in LogTasks : LogEventEnter(t)
  \/ \E t \in LogTasks : LogEventAppend(t)
  \/ \E t \in LogTasks : LogEventExit(t)
  \/ \E t \in LogTasks : WorkerContinue(t)

SpecLog == InitLog /\ [][NextLog]_vars

(***************************************************************************)
(* Properties of the pipelines.                                            *)
(***************************************************************************)
\* no file operation of a worker has failed
NoIOFault == \A w \in AllWorkers \ {ReasonW} : ~raised[w]

Logged(tag, b, stage, variant) == LogLine(tag, b, stage, variant) \in log

\* C1: main_async of the combined pipeline gets past all five joins: once no
\* task can take a step any more (and no file operation has failed),
\* main_async is not waiting at a queue join.
C1_MainPassesAllJoins ==
  (~ENABLED NextMain /\ NoIOFault) => mainPc \notin JoinPcs

\* C2: in the combined pipeline every bug report put on read_queue gets its six
\* ranked-result files: once no task can take a step any more (and no file
\* operation has failed), each of the six files of every enqueued bug exists.
C2_SixResultFiles ==
  (~ENABLED NextMain /\ NoIOFault /\ mainPc # "aborted") =>
     \A b \in 1..nbugs, k \in Kinds, t \in Tags : files[<<b, k, t>>] # NoFile

\* C3 as stated: when main_async is about to cancel the workers, every queue
\* is empty with no unfinished task and every worker is parked at a queue get
\* holding no item.
C3_AllParkedAtCancel ==
  mainPc = "cancel" =>
    /\ \A q \in PipelineQueues(pipeline) : queue[q] = <<>> /\ unfinished[q] = 0
    /\ \A w \in Workers(pipeline) : witem[w] = NoItem /\ wpc[w] = "get"

\* C3 amended: when main_async is about to cancel the workers, every queue is
\* empty with no unfinished task, no worker holds an item or has a pool call
\* in flight, and every worker is parked at a queue get or, when no bug
\* report was enqueued, has not run its first step yet.
C3_DrainedAtCancel ==
  mainPc = "cancel" =>
    /\ \A q \in PipelineQueues(pipeline) : queue[q] = <<>> /\ unfinished[q] = 0
    /\ \A w \in Workers(pipeline) :
         /\ witem[w] = NoItem
         /\ wpc[w] = IF nbugs > 0 THEN "get" ELSE "new"

\* a run of the KeyBERT pipeline that localized a bug report reaches the cancel
C3_Witness ==
  /\ mainPc = "cancel"
  /\ nbugs > 0
  /\ \A b \in 1..nbugs : Logged("LOCALIZE", b, "extended done", "-")

\* C4: an exception while a stage worker processes an item leaves the item
\* acknowledged and the worker alive: a worker that has raised holds no
\* unacknowledged item and its task has not ended.
C4_FailureIsolated ==
  \A w \in AllWorkers : raised[w] => (witem[w] = NoItem /\ wpc[w] # "dead")

\* the capacity the pipeline queues are to have: 2 * P
QueueCapacity == 2 * NumLocalizeWorkers

\* C5: every pipeline queue is constructed with a finite capacity (2 * P) and
\* never holds more items than its capacity.
C5_QueuesBounded ==
  mainPc # "start" =>
    \A q \in PipelineQueues(pipeline) :
       /\ QueueMaxsize = QueueCapacity
       /\ Len(queue[q]) <= QueueMaxsize

\* C6: stage order within a bug report, read off the log: PROCESS starts after
\* READ is done, KEYBERT starts after PROCESS is done, and the LOCALIZE that
\* writes the result files of a variant starts after the query generation of
\* that variant is done (PROCESS for basic, KEYBERT for keyBERT, REASON for
\* reasoning).
C6_StageOrder ==
  \A b \in Bugs :
    /\ Logged("PROCESS", b, "start", "-") => Logged("READ", b, "done", "-")
    /\ Logged("KEYBERT", b, "start", "-") => Logged("PROCESS", b, "done", "-")
    /\ Logged("LOCALIZE", b, "baseline start", "basic")
          => Logged("PROCESS", b, "done", "-")
    /\ Logged("LOCALIZE", b, "baseline start", "keyBERT")
          => Logged("KEYBERT", b, "done", "-")
    /\ Logged("LOCALIZE", b, "baseline start", "reasoning")
          => Logged("REASON", b, "done", "-")

\* C7: a ranked-result file never holds an error message: when the
\* localization tool raises, no result file is written for that query.
C7_NoErrorInResultFile ==
  \A f \in DOMAIN files : files[f].kind # "error"

\* C14: when the index build fails main_async aborts before any bug report
\* is put on read_queue and before any worker task exists: no queue holds an
\* item, no worker was created, no stage has logged and no result file exists.
C14_IndexFailureIsFatal ==
  mainPc = "aborted" =>
    /\ \A q \in QueueNames : queue[q] = <<>> /\ unfinished[q] = 0
    /\ \A w \in AllWorkers : wpc[w] = "none" /\ witem[w] = NoItem
    /\ log = {}
    /\ \A f \in DOMAIN files : files[f] = NoFile

\* the index build failed in a run that had bug reports to process
C14_Witness ==
  /\ mainPc = "aborted"
  /\ nbugs > 0

(***************************************************************************)
(* Properties of the hybrid ranker.                                        *)
(***************************************************************************)
\* C8: on a non-empty corpus a call with the empty query returns an empty
\* ranked result (no result line).
C8_EmptyQueryEmptyResult ==
  (rankPc = "returned" /\ queryEmpty) => Len(result) = 0

\* C9: for a corpus of N documents and top_n >= 1 the result has exactly
\* min(N, top_n) lines, ranked 1..k in order, with scores non-increasing in
\* rank and no document twice.
C9_RankedResultShape ==
  rankPc = "returned" =>
    /\ Len(result) = Min(corpusSize, topN)
    /\ \A r \in 1..Len(result) : result[r].rank = r
    /\ \A r \in 1..Len(result) : result[r].doc \in 1..corpusSize
    /\ \A r \in 1..(Len(result) - 1) :
         ~ScoreLess(result[r].score, result[r + 1].score)
    /\ \A r1, r2 \in 1..Len(result) :
         r1 # r2 => result[r1].doc # result[r2].doc

\* a call that cuts the ranking at top_n < N and whose first two lines differ
\* in score
C9_Witness ==
  /\ rankPc = "returned"
  /\ topN < corpusSize
  /\ Len(result) >= 2
  /\ ScoreLess(result[2].score, result[1].score)

\* C10: of two documents of equal fused score the one at the smaller corpus
\* position is ranked first.
C10_TieBreakByPosition ==
  rankPc = "returned" =>
    \A r1, r2 \in 1..Len(result) :
       (r1 < r2 /\ result[r1].score = result[r2].score)
          => result[r1].doc < result[r2].doc

\* the documents of the result lines
ResultDocs == {result[r].doc : r \in 1..Len(result)}

\* the result is a top-k ranking by key (a larger key first): no line is
\* followed by a line of larger key, and no document left out has a larger key
\* than a document listed
RankedByKey(key) ==
  /\ \A r1, r2 \in 1..Len(result) :
       r1 < r2 => key[result[r1].doc] >= key[result[r2].doc]
  /\ \A d \in (1..corpusSize) \ ResultDocs :
       \A r \in 1..Len(result) : key[result[r].doc] >= key[d]

\* C11: with weights (1, 0) the fused ranking is the ranking by BM25 score,
\* higher first; with weights (0, 1) it is the ranking by L2 distance, smaller
\* first.
C11_SingleModalityRanking ==
  rankPc = "returned" =>
    /\ weights = <<10, 0>> => RankedByKey(bm25Scores)
    /\ weights = <<0, 10>> => RankedByKey([i \in 1..corpusSize |-> 0 - faissDist[i]])

\* a BM25-only call that cuts the ranking, on vectors where the nearest
\* document is not the one of highest BM25 score
C11_Witness ==
  /\ rankPc = "returned"
  /\ weights = <<10, 0>>
  /\ topN < corpusSize
  /\ Len(result) >= 2
  /\ bm25Scores[result[1].doc] > bm25Scores[result[2].doc]
  /\ faissDist[result[1].doc] > faissDist[result[2].doc]

\* the weight precondition: each weight in [0, 1] and the two summing to 1
ValidWeights ==
  /\ weights[1] \in 0..10
  /\ weights[2] \in 0..10
  /\ weights[1] + weights[2] = 10

\* C27: the ranker enforces its weight precondition: no ranking is produced
\* from weights outside [0, 1] or not summing to 1.
C27_WeightsEnforced ==
  (rankPc = "returned" /\ result # <<>>) => ValidWeights

\* a normalized value that is zero
IsZero(v) == v.n = 0 /\ v.k = 0

\* C28: a score vector that is constant over the corpus has an all-zero
\* min-max-normalized vector, BM25 and dense alike, so that the fused score of
\* every document is the weighted normalized score of the other modality.
C28_ConstantVectorDropsOut ==
  rankPc = "returned" =>
    /\ Ptp(bm25Scores, corpusSize) = 0 =>
         \A i \in 1..corpusSize :
           IsZero(Bm25Norm(i)) /\ FusedScore(i) = WeightedFaiss(i)
    /\ Ptp(faissDist, corpusSize) = 0 =>
         \A i \in 1..corpusSize :
           IsZero(FaissNorm(i)) /\ FusedScore(i) = WeightedBm25(i)

(***************************************************************************)
(* Properties of index_source_code.                                        *)
(***************************************************************************)
\* C12: the persisted BM25 artifact is keyed by the corpus directory: the
\* BM25 index a call returns is built from the documents of the directory
\* the call was given.
C12_Bm25KeyedByCorpusDir ==
  indexRet.kind = "triple" => indexRet.bm25_index = Corpus(indexArg)

\* C13: a persisted dense index whose recorded corpus size differs from the
\* current run's is not returned (loading fails instead).
C13_StaleDenseIndexRejected ==
  indexRet.kind = "triple" =>
    indexRet.faiss_index.size = indexRet.processed_documents.size

(***************************************************************************)
(* Properties of the evaluator.                                            *)
(***************************************************************************)
\* the bugs that entered the metrics: the entries of bug_report_ranks
CountedBugs == DOMAIN evalResults.bug_report_ranks

\* the positions of a list that hold a file id of rel
RelevantPositions(list, rel) == {i \in 1..Len(list) : list[i] \in rel}

SeqRange(q) == {q[i] : i \in 1..Len(q)}

C16_MissingResultCountsZero ==
  evalPc = "done" =>
    /\ \A b \in ConsideredBugs : b \in CountedBugs
    /\ evalResults.considered_bugs = Cardinality(ConsideredBugs)

Variants == {"baseline", "extended"}

\* the smallest position of list holding a file id of rel, RankInf if none
FirstRelevant(list, rel) ==
  IF RelevantPositions(list, rel) = {} THEN RankInf
  ELSE CHOOSE i \in RelevantPositions(list, rel) :
         \A j \in RelevantPositions(list, rel) : i <= j

\* the sum over the counted bugs of 1/(first relevant rank), 0 for a bug
\* without a relevant file, in 1/Scale
ReciprocalRankSum(v) ==
  SumOf([b \in CountedBugs |->
           LET r == FirstRelevant(resultFiles[b][v], existingFiles[b])
           IN IF r = RankInf THEN 0 ELSE Scale \div r],
        CountedBugs)

AveragePrecisionByRSum(v) ==
  SumOf([b \in CountedBugs |->
           LET pos == RelevantPositions(resultFiles[b][v], existingFiles[b])
               seen(i) == Cardinality({j \in pos : j <= i})
               R == Cardinality(existingFiles[b])
               psum == SumOf([i \in pos |-> (Scale * seen(i)) \div i], pos)
           IN IF R = 0 THEN 0 ELSE (psum * Factorial(MaxFileIds)) \div R],
        CountedBugs)

NoDuplicate(q) == \A i, j \in 1..Len(q) : i # j => q[i] # q[j]

\* C19: MAP is the mean over the counted bugs of the average precision
\* (1/R) * sum over the ranks of relevant files of (relevant seen)/rank, with
\* R the number of relevant files of the bug, as a percentage.  Stated for
\* rankings that list no file twice, where "relevant seen" has one meaning.
C19_AveragePrecisionByR ==
  (evalPc = "done" /\ \A b \in CountedBugs : \A v \in Variants :
                        NoDuplicate(resultFiles[b][v])) =>
    \A v \in Variants :
      LET map == evalResults[v].map
          n == Cardinality(CountedBugs)
      IN map.num * (Scale * Factorial(MaxFileIds) * n)
           = 100 * AveragePrecisionByRSum(v) * map.den

InRange(f, hi) == f.den > 0 /\ 0 <= f.num /\ f.num <= hi * f.den

\* C20: every Hit@K and MAP value returned lies in [0, 100] and every MRR
\* value in [0, 1].
C20_MetricRanges ==
  evalPc = "done" =>
    \A v \in Variants :
      /\ InRange(evalResults[v].hit1, 100)
      /\ InRange(evalResults[v].hit5, 100)
      /\ InRange(evalResults[v].hit10, 100)
      /\ InRange(evalResults[v].map, 100)
      /\ InRange(evalResults[v].mrr, 1)

\* a counted bug whose ranking lists a relevant file twice
C20_Witness ==
  /\ evalPc = "done"
  /\ \E b \in CountedBugs :
       /\ Len(resultFiles[b].baseline) = 2
       /\ resultFiles[b].baseline[1] = resultFiles[b].baseline[2]
       /\ resultFiles[b].baseline[1] \in existingFiles[b]
  /\ evalResults.baseline.map.num = 100 * evalResults.baseline.map.den

\* the bugs for which a stage has logged its start and not yet its end
InStage(tag, first, last) ==
  {b \in Bugs : Logged(tag, b, first, "-") /\ ~Logged(tag, b, last, "-")}

LoggedStages ==
  IF pipeline = "combined"
    THEN {"READ", "PROCESS", "KEYBERT", "REASON", "LOCALIZE"}
  ELSE IF pipeline = "reason"
    THEN {"READ", "REASON", "PROCESS", "LOCALIZE"}
  ELSE IF pipeline = "nlp"
    THEN {"READ", "PROCESS"}
    ELSE {"READ", "PROCESS", "KEYBERT", "LOCALIZE"}

LoggedVariants == IF pipeline = "combined" THEN Tags ELSE {"-"}

StageStarted(tag, b) ==
  IF tag = "LOCALIZE"
    THEN \E v \in LoggedVariants : Logged(tag, b, "baseline start", v)
    ELSE Logged(tag, b, "start", "-")

StageDone(tag, b) ==
  IF tag = "LOCALIZE"
    THEN \E v \in LoggedVariants :
           Logged(tag, b, IF pipeline = "reason" THEN "done" ELSE "extended done", v)
    ELSE Logged(tag, b, "done", "-")

\* C30: the log is an ordered record of progress.  Read off the log, for every
\* bug report put on read_queue: a 'done' entry of a stage is never there
\* without its 'start' entry; the 'start' entry of a stage is never there
\* without the 'done' entry of the stage that forwarded the item (READ for
\* PROCESS and REASON, PROCESS for KEYBERT, and for LOCALIZE the stage that
\* put the item on localization_queue); and once no task can take a step any
\* more (and no file operation has failed) every stage of the pipeline has
\* its 'start' and its 'done' entry.
C30_LogIsOrderedRecord ==
  \A b \in Bugs :
    /\ \A tag \in LoggedStages \ {"LOCALIZE"} :
         Logged(tag, b, "done", "-") => Logged(tag, b, "start", "-")
    /\ \A v \in LoggedVariants :
         /\ Logged("LOCALIZE", b, "baseline done", v)
              => Logged("LOCALIZE", b, "baseline start", v)
         /\ Logged("LOCALIZE", b, "extended start", v)
              => Logged("LOCALIZE", b, "baseline done", v)
         /\ Logged("LOCALIZE", b, "extended done", v)
              => Logged("LOCALIZE", b, "extended start", v)
    /\ Logged("PROCESS", b, "start", "-") => Logged("READ", b, "done", "-")
    /\ Logged("REASON", b, "start", "-") => Logged("READ", b, "done", "-")
    /\ Logged("KEYBERT", b, "start", "-") => Logged("PROCESS", b, "done", "-")
    /\ Logged("LOCALIZE", b, "baseline start", "-")
          => Logged("KEYBERT", b, "done", "-")
    /\ Logged("LOCALIZE", b, "baseline start", "keyBERT")
          => Logged("PROCESS", b, "done", "-")
    /\ Logged("LOCALIZE", b, "baseline start", "basic")
          => Logged("KEYBERT", b, "done", "-")
    /\ Logged("LOCALIZE", b, "baseline start", "reasoning")
          => Logged("REASON", b, "done", "-")
    /\ (b <= nbugs /\ mainPc \notin {"start", "aborted"}
          /\ ~ENABLED NextMain /\ NoIOFault)
         => \A tag \in LoggedStages : StageStarted(tag, b) /\ StageDone(tag, b)

\* C31: in the combined pipeline a ranked-result file holds the ranking of the
\* query its name states: the files tagged keyBERT come from the queries of
\* the KEYBERT stage, the files tagged basic from the text of the PROCESS
\* stage.
C31_ResultFileHoldsItsVariant ==
  pipeline = "combined" =>
    \A b \in Bugs, k \in Kinds :
      /\ files[<<b, k, "keyBERT">>] # NoFile
           => files[<<b, k, "keyBERT">>].from = "KEYBERT"
      /\ files[<<b, k, "basic">>] # NoFile
           => files[<<b, k, "basic">>].from = "PROCESS"

\* a step in which a stage takes bug report b from its queue
Consumes(tag, b) ==
  CASE tag = "READ" -> ReadWorker /\ Head(queue["read"]).bug = b
    [] tag = "PROCESS" -> ProcessWorker /\ Head(queue["process"]).bug = b
    [] tag = "KEYBERT" -> KeybertGet /\ Head(queue["keybert"]).bug = b
    [] tag = "LOCALIZE" ->
         \E w \in LocalizeWs :
           LocalizeGet(w) /\ Head(queue["localization"]).bug = b

\* a step in which a localize worker writes a ranked-result file of bug b
Writes(b, k) ==
  \E w \in LocalizeWs :
    /\ witem[w].bug = b
    /\ IF k = "baseline" THEN LocalizeBaselineReturn(w)
                         ELSE LocalizeExtendedReturn(w)

\* the bugs the localize workers hold
HeldBy(w) == IF witem[w] = NoItem THEN {} ELSE {witem[w].bug}

C33_OldWorkersStayOff ==
  /\ [][OldTasksResume => UNCHANGED <<queue, unfinished, witem, files>>]_vars
  /\ [](\A g \in Projects, w \in AllWorkers :
          oldTasks[g][w] \notin {"took", "parked"})

\* the second project has been processed to the cancel while the tasks of the
\* first call ended with CancelledError
C33_Witness ==
  /\ projectNo > 1
  /\ mainPc = "cancel"
  /\ nbugs > 0
  /\ \A b \in 1..nbugs, k \in Kinds : files[<<b, k, "keyBERT">>] # NoFile
  /\ \A w \in Workers(pipeline) : oldTasks[1][w] = "cancelled"

\* C34: in src/main.py, where keybert_worker puts the baseline query and the
\* extended query of a bug as two items and the one localize_worker takes two
\* items per loop, the item taken at the first get is a baseline query, the
\* item taken at the second get is the extended query of the same bug, and
\* each result file holds the ranking of the query its name states.
C34_PairsStayAligned ==
  /\ [][\A w \in SingleLocalizeWs :
          /\ SingleLocalizeFirst(w)
               => Head(queue["localization"]).from = "baseline"
          /\ SingleLocalizeSecond(w)
               => /\ Head(queue["localization"]).from = "extended"
                  /\ Head(queue["localization"]).bug = witem[w].bug]_vars
  /\ [](\A b \in Bugs, k \in Kinds :
          files[<<b, k, "keyBERT">>] # NoFile
            => files[<<b, k, "keyBERT">>].from = k)

\* both result files of the second bug are written while main_async waits
C34_Witness ==
  /\ pipeline = "single"
  /\ nbugs > 1
  /\ \A b \in 1..nbugs, k \in Kinds : files[<<b, k, "keyBERT">>] # NoFile

\* the tool was looked up and called, and the lookup or the call raised
ToolRaised ==
  /\ Dispatch(agent.name) # NoTool
  /\ TryBlock(agent, agentArgs, toolOutcome).kind = "raised"

\* the tool was called with arguments it accepts and returned
ToolReturned ==
  /\ Dispatch(agent.name) \in agent.tools
  /\ agentArgs = Arity(Dispatch(agent.name))
  /\ toolOutcome.kind = "returned"

\* C35: Agent.run never raises: it returns a mapping with exactly the key
\* output_key, whose value is the tool's result when the tool returned,
\* 'Unknown agent.' when the agent name is not in the dispatch chain, and a
\* string starting with 'Error: ' when the tool raised.
C35_AgentRunNeverRaises ==
  agentPc = "returned" =>
    /\ ~agentRet.raised
    /\ DOMAIN agentRet.mapping = {agent.outputKey}
    /\ ToolReturned => agentRet.mapping[agent.outputKey] = toolOutcome.value
    /\ Dispatch(agent.name) = NoTool
         => agentRet.mapping[agent.outputKey] = UnknownAgent
    /\ ToolRaised => StartsWith(agentRet.mapping[agent.outputKey], ErrorPrefix)

\* run has returned after the tool raised
C35_Witness ==
  /\ agentPc = "returned"
  /\ ToolRaised
  /\ toolOutcome.kind = "raised"
  /\ agentArgs = Arity(Dispatch(agent.name))

\* the stage that consumes a queue
StageOf(q) ==
  CASE q = "read" -> "READ"
    [] q = "process" -> "PROCESS"
    [] q = "keybert" -> "KEYBERT"
    [] q = "reason" -> "REASON"
    [] q = "localization" -> "LOCALIZE"

\* a step that takes bug report b from queue q
Takes(q, b) ==
  /\ queue[q] # <<>>
  /\ Head(queue[q]).bug = b
  /\ queue'[q] = Tail(queue[q])

\* C36: when no worker raises, each single-family pipeline (KEYBERT.py,
\* reason.py, NLP.py) terminates for every set of bug reports: main_async
\* eventually returns (or is left by the unpacking error of a failed index
\* build, or a worker has raised); no stage takes a bug report it has taken
\* before; and when main_async has returned every queue is empty and every
\* bug report has the start and the done of every stage of the pipeline.  In
\* NLP.py nothing is ever on localization_queue.
C36_FamiliesTerminate ==
  /\ <>(mainPc \in {"done", "aborted"} \/ ~NoIOFault)
  /\ [][\A q \in PipelineQueues(pipeline), b \in Bugs :
          Takes(q, b) => ~StageStarted(StageOf(q), b)]_vars
  /\ [](mainPc = "done" =>
          /\ \A q \in QueueNames : queue[q] = <<>> /\ unfinished[q] = 0
          /\ \A b \in 1..nbugs, tag \in LoggedStages :
               StageStarted(tag, b) /\ StageDone(tag, b))
  /\ [](pipeline = "nlp" => queue["localization"] = <<>>)

\* main_async of NLP.py has returned after two bug reports
C36_Witness ==
  /\ pipeline = "nlp"
  /\ mainPc = "done"
  /\ nbugs > 1
  /\ \A b \in 1..nbugs : StageDone("PROCESS", b)

\* C37: load_ground_truth terminates on every input file: every iteration
\* of its loop moves the line cursor strictly forward, whatever the count of
\* a header line (zero, negative, larger than the lines that remain), and
\* the call returns.
C37_LoadGroundTruthTerminates ==
  /\ [][LoadGroundTruthLoop => cursor' > cursor]_vars
  /\ <>(loadPc \in {"idle", "returned"})

\* C38: on the same ground-truth file, source tree and result directory the
\* two evaluation paths of evaluate2.py give the same considered bugs and
\* the same Hit@K, MRR, MAP and QE counts, also when a result file of a bug
\* is empty or one of its two result files is missing.
C38_EvaluationPathsAgree ==
  (evalPc = "done" /\ refPc \notin {"idle", "start"}) =>
    /\ refPc = "done"
    /\ DOMAIN refResults.bug_report_ranks = DOMAIN evalResults.bug_report_ranks
    /\ refResults.baseline = evalResults.baseline
    /\ refResults.extended = evalResults.extended
    /\ refResults.qe_stats = evalResults.qe_stats

\* C25: tokenization, the keyword calls and ranking always run through
\* run_blocking, never inline on the event loop: the step of a worker that
\* logs the start of such a stage for a bug hands the work to the pool and
\* suspends, so the stage is not also done within that step and other
\* workers can run while it is in progress.
C25_CpuBoundStagesOffloaded ==
  [][\A b \in Bugs : \A tag \in {"PROCESS", "KEYBERT"} :
       (~Logged(tag, b, "start", "-") /\ LogLine(tag, b, "start", "-") \in log')
         => LogLine(tag, b, "done", "-") \notin log']_vars

(***************************************************************************)
(* Properties of the file ids.                                             *)
(***************************************************************************)
\* C21: normalize_file_path removes the leading corpus-root segment and turns
\* every dot but the last into a separator, so that the id it gives the
\* ground-truth line of a file is the id load_search_results gives the
\* ranked-result line of that file.
C21_GroundTruthIdIsRankedId ==
  (pathPc = "loaded" /\ rankedId # NoString /\ gtId # NoString) =>
     /\ ~StartsWith(gtId, CorpusRoot \o <<"/">>)
     /\ gtId = rankedId

\* the path of a source file below the corpus-root directory
BelowCorpusRoot(path) ==
  LET parts == PathParts(path)
      root == CHOOSE i \in 1..Len(parts) : parts[i] = CorpusRoot
  IN Join(SubSeq(parts, root + 1, Len(parts)), <<"/">>)

\* C22: the dotted id get_short_filename writes for an indexed file is parsed
\* by load_search_results back to that file's path relative to the corpus
\* root, also when a directory or file name contains a dot and when no path
\* component starts with 'Project'.
C22_FileIdRoundTrip ==
  pathPc = "loaded" => rankedId = BelowCorpusRoot(srcPath)

(***************************************************************************)
(* Properties of preprocess_text.                                          *)
(***************************************************************************)
\* C23: preprocess_text is idempotent for a fixed stop-word set: applied to
\* its own output it returns that output.
C23_PreprocessIdempotent ==
  ppCalls = 2 => ppOut = ppIn

\* the second call ran on an output of two words, left over from two URL
\* openings that no address followed
C23_Witness ==
  /\ ppCalls = 2
  /\ ppIn = <<"h", "t", "t", "p", " ", "h", "t", "t", "p">>
  /\ ppOut = ppIn

(***************************************************************************)
(* Properties of the BM25 index.                                           *)
(***************************************************************************)
\* the tokens of a normalized string: the string split on single spaces
TokensOf(text) == TermsOf(Split(text, " "))

\* C24: BM25 is built from and queried with the token lists of the normalized
\* strings, so matching is on whole tokens: the terms the index holds for a
\* document are its tokens, and a query that shares no token with a document
\* gives that document the score 0, even if they share characters.
C24_WholeTokenMatching ==
  bmPc = "scored" =>
    \A d \in 1..Len(tokenizedCorpus) :
      /\ DOMAIN bm25Index.doc_freqs[d] = TokensOf(tokenizedCorpus[d])
      /\ TokensOf(bugReportQuery) \cap TokensOf(tokenizedCorpus[d]) = {}
           => scoreSigns[d] = "zero"

(***************************************************************************)
(* Properties of log_event.                                                *)
(***************************************************************************)
\* the tasks inside the body of `async with log_lock`
InsideAppend == {t \in LogTasks : lpc[t] \in {"locked", "appended"}}

=============================================================================
